---- MODULE Spec2Model ----
(***************************************************************************)
(* TripLog (Django travel-spot application): a state-machine model of the  *)
(* request handlers and service functions in src/spots.                    *)
(*                                                                         *)
(* The database tables are the variables; every HTTP handler is an action  *)
(* (or, where the handler issues several database statements that can      *)
(* interleave with another request, one action per statement).             *)
(* Each subsystem has its own specification (SpecInteraction, ...), which  *)
(* leaves the tables of the other subsystems untouched.                    *)
(***************************************************************************)
EXTENDS Integers, Sequences, FiniteSets, TLC

(***************************************************************************)
(* Shared universe                                                         *)
(***************************************************************************)
\* request.user of a request that carries no authenticated session
Anonymous == "anonymous"
\* the accounts that can log in
Users == {"alice", "bob"}
Clients == Users \cup {Anonymous}
\* the clients of the view-logging endpoints: rows of different users are
\* different rows, as rows of different spots are, so one account and the
\* anonymous visitor are enough there
Viewers == {"alice", Anonymous}
\* primary keys of the Spot rows used by the view / review / favorite models
Spots == {"s1", "s2"}
\* no row for that key
NoRow == [exists |-> FALSE]

VARIABLES
  now,            \* timezone.now(), in whole days
  interactions,   \* UserSpotInteraction table: (user, spot) -> row or NoRow
  spotViews,      \* SpotView table: spot -> sequence of viewed_at, one per row
  reqs,           \* requests in flight against the interaction endpoints
  lastDone,       \* the request answered last: the endpoint that answered it (or
                  \* the service function that completed), its client, the response
  started,        \* number of requests started so far
  viewCalls,      \* history: log_spot_view calls made per (user, spot)
  durReported,    \* history: sum of the positive durations reported per (user, spot)
  reviews,        \* Review table: the rows in insertion order
  reviewReqs,     \* add_review / add_review_api requests in flight
  profiles,       \* UserProfile table: the users that have a profile row
  favorites,      \* UserProfile.favorite_spots: the (user, spot) pairs
  lastToggle,     \* history: the last call of toggle_favorite_spot
  favResponse,    \* the response of the favorite endpoint that answered last
  ranked,         \* the response of the ranking endpoint, until the next request
  spotRows,       \* Spot table of the spots_api model: created_by, by primary key
  apiResponse,    \* the response of spots_api, until the next request
  userRows,       \* User table of the admin model: the rows by primary key
  adminRecords,   \* the other tables of the admin model: table -> rows by
                  \* primary key (NoRow for a deleted row)
  profileRows,    \* UserProfile rows of the users of the admin model
  adminResponse,  \* the manage/ request answered last and its response
  adminRequests,  \* number of manage/ requests so far
  spotTable,      \* Spot table of the homepage and of the analysis: the rows in
                  \* the order of their primary keys
  scoreRows,      \* UserRecommendationScore table: the rows in the order of
                  \* their primary keys
  homeResult,     \* the fetch_homepage_spots call answered last and its result
  tagRows,        \* Tag table: the names in the order of the primary keys
  formSpots,      \* Spot rows saved through SpotForm: creator and tags
  formResult,     \* the SpotForm request answered last
  history,        \* UserSpotInteraction rows of the users of the analysis:
                  \* (user, spot) -> row or NoRow
  clock,          \* timezone.now() of the analysis, in units of TickSeconds
  relevanceResult, \* the order_spots_by_relevance call answered last
  jobSetting,     \* RecommendationJobSetting table: the row, or NoRow
  jobLogs,        \* RecommendationJobLog table: the rows in the order of their
                  \* primary keys
  lastCall,       \* the invocation of the command or call of a service made last
  lastUpdate,     \* the time of the last update_last_run, or NoTime
  jobCalls,       \* number of invocations and calls so far
  fallbackResult, \* the _compute_fallback_score call answered last
  crawlInput,     \* crawl: its arguments and the site behind base_url
  crawlPc,        \* crawl: not called, in its loop, or returned
  to_visit,       \* crawl: the deque of URLs
  visited,        \* crawl: the set of URLs taken from the deque
  titles,         \* crawl: the URLs that have a title
  edges,          \* crawl: the list of (src_url, dst_url)
  fetched,        \* history: the URLs passed to session.get, in order
  discovered      \* history: the URLs put into the deque, in order

interactionVars ==
  <<interactions, spotViews, reqs, lastDone, started, viewCalls, durReported>>

reviewVars == <<reviews, reviewReqs>>

favoriteVars == <<profiles, favorites, lastToggle, favResponse>>

spotsApiVars == <<spotRows, apiResponse>>

adminVars == <<userRows, adminRecords, profileRows, adminResponse, adminRequests>>

homepageVars == <<spotTable, scoreRows, homeResult>>

spotFormVars == <<tagRows, formSpots, formResult>>

analysisVars == <<history, clock, relevanceResult>>

jobVars == <<jobSetting, jobLogs, lastCall, lastUpdate, jobCalls>>

\* the variables of the services
fallbackVars == <<fallbackResult>>

crawlVars == <<crawlInput, crawlPc, to_visit, visited, titles, edges, fetched, discovered>>

serviceVars == <<homepageVars, spotFormVars, analysisVars, jobVars, fallbackVars, crawlVars>>

\* the variables of the views
webVars ==
  <<now, interactionVars, reviewVars, favoriteVars, ranked, spotsApiVars, adminVars>>

vars == <<webVars, serviceVars>>

(***************************************************************************)
(* Spot views and view durations: services/interactions.py                 *)
(***************************************************************************)
\* request slots that can be in flight at the same time
MaxSlots == 2
\* requests started in one behaviour
MaxRequests == 3
Slots == 1..MaxSlots
\* duration_ms values a client reports
Durations == {-3, 2}
\* the raw duration_ms parameter: a number, or text that is no number
RawDurations == [ok : {TRUE}, ms : Durations] \cup {[ok |-> FALSE, ms |-> 0]}
Methods == {"GET", "POST"}

IdleReq == [pc |-> "idle", kind |-> "none", user |-> Anonymous, spot |-> "s1",
            duration |-> 0, interaction |-> NoRow]

NoneDone == [kind |-> "none", user |-> Anonymous, response |-> "none"]

IsAuthenticatedWithoutTest(user) == TRUE

\* getattr(user, "is_authenticated", False)
IsAuthenticated(user) == user # Anonymous

\* _safe_float: the number, or 0.0 when the text is no number
SafeFloat(raw) == IF raw.ok THEN raw.ms ELSE 0

NormalizedDurationUnclamped(duration) == duration

\* duration if duration > timedelta(0) else timedelta(0)
NormalizedDuration(duration) == IF duration > 0 THEN duration ELSE 0

Max(a, b) == IF a >= b THEN a ELSE b

Key(user, spot) == <<user, spot>>

RowExists(user, spot) == interactions[Key(user, spot)].exists

\* SpotView.objects.create(spot=spot): viewed_at is auto_now_add
CreateSpotView(spot) == [spotViews EXCEPT ![spot] = Append(@, now)]

\* a new UserSpotInteraction row: view_count from the defaults, the other
\* columns from the defaults of the call or of the model
NewInteraction(view_count, duration) ==
  [exists |-> TRUE, view_count |-> view_count,
   total_view_duration |-> duration, last_viewed_at |-> now]

\* filter(pk=interaction.pk).update(view_count=F("view_count") + 1,
\* last_viewed_at=now): one UPDATE statement; the database adds to the stored
\* value (row), not to the value the request fetched earlier (interaction)
IncrementViewCount(row, interaction) ==
  [row EXCEPT !.view_count = @ + 1, !.last_viewed_at = now]

\* filter(pk=interaction.pk).update(total_view_duration=F("total_view_duration")
\* + normalized_duration, last_viewed_at=now)
AddDuration(row, interaction, duration) ==
  [row EXCEPT !.total_view_duration = @ + duration, !.last_viewed_at = now]

\* a new request is taken by the first free worker slot
CanStart(r) ==
  /\ reqs[r].pc = "idle"
  /\ \A q \in Slots : q < r => reqs[q].pc # "idle"
  /\ started < MaxRequests

\* the response goes out and the request's slot is free again
Respond(r, kind, user, response) ==
  /\ reqs' = [reqs EXCEPT ![r] = IdleReq]
  /\ lastDone' = [kind |-> kind, user |-> user, response |-> response]

\* the view calls the service function kind (log_spot_view or
\* update_view_duration), which goes on to its get_or_create
Proceed(r, kind, user, spot, duration) ==
  /\ reqs' = [reqs EXCEPT ![r] =
       [IdleReq EXCEPT !.pc = "get", !.kind = kind, !.user = user,
                       !.spot = spot, !.duration = duration]]
  /\ UNCHANGED lastDone

\* spot_detail (HTML) and spot_detail_data (JSON): log_spot_view up to its
\* authentication test.  The HTML view logs GET requests only; the JSON view
\* is @require_GET and answers 405 to anything else.
SpotDetail(r, kind, method, user, spot) ==
  /\ CanStart(r)
  /\ started' = started + 1
  /\ IF method # "GET"
       THEN /\ Respond(r, kind, user,
                       IF kind = "spot_detail" THEN "200" ELSE "405")
            /\ UNCHANGED <<spotViews, viewCalls>>
       ELSE /\ spotViews' = CreateSpotView(spot)
            /\ IF ~IsAuthenticated(user)
                 THEN /\ Respond(r, kind, user, "200")
                      /\ UNCHANGED viewCalls
                 ELSE /\ Proceed(r, "log_spot_view", user, spot, 0)
                      /\ viewCalls' = [viewCalls EXCEPT ![Key(user, spot)] = @ + 1]
  /\ UNCHANGED <<now, interactions, durReported>>

\* record_spot_view: @login_required, then @require_POST, then
\* update_view_duration(spot, user, timedelta(milliseconds=_safe_float(...)))
RecordSpotView(r, method, user, spot, raw) ==
  /\ CanStart(r)
  /\ started' = started + 1
  /\ IF ~IsAuthenticated(user)
       THEN /\ Respond(r, "record_spot_view", user, "redirect_login")
            /\ UNCHANGED durReported
       ELSE IF method # "POST"
       THEN /\ Respond(r, "record_spot_view", user, "405")
            /\ UNCHANGED durReported
       ELSE /\ Proceed(r, "update_view_duration", user, spot,
                       NormalizedDuration(SafeFloat(raw)))
            /\ durReported' = [durReported EXCEPT ![Key(user, spot)] =
                                 @ + Max(SafeFloat(raw), 0)]
  /\ UNCHANGED <<now, interactions, spotViews, viewCalls>>

\* record_view_api: @require_POST, then the is_authenticated test (401), then
\* float(payload["duration_ms"]) (raises on text that is no number), then
\* update_view_duration(spot, user, timedelta(milliseconds=max(duration_ms, 0)))
RecordViewApi(r, method, user, spot, raw) ==
  /\ CanStart(r)
  /\ started' = started + 1
  /\ IF method # "POST"
       THEN /\ Respond(r, "record_view_api", user, "405")
            /\ UNCHANGED durReported
       ELSE IF ~IsAuthenticated(user)
       THEN /\ Respond(r, "record_view_api", user, "401")
            /\ UNCHANGED durReported
       ELSE IF ~raw.ok
       THEN /\ Respond(r, "record_view_api", user, "500")
            /\ UNCHANGED durReported
       ELSE /\ Proceed(r, "update_view_duration", user, spot,
                       NormalizedDuration(Max(raw.ms, 0)))
            /\ durReported' = [durReported EXCEPT ![Key(user, spot)] =
                                 @ + Max(raw.ms, 0)]
  /\ UNCHANGED <<now, interactions, spotViews, viewCalls>>

IsViewKind(kind) == kind = "log_spot_view"

\* get_or_create, first statement: SELECT the row of (user, spot)
GetInteraction(r) ==
  /\ reqs[r].pc = "get"
  /\ reqs' = [reqs EXCEPT
                ![r].pc = IF RowExists(reqs[r].user, reqs[r].spot)
                            THEN "update" ELSE "create",
                ![r].interaction = interactions[Key(reqs[r].user, reqs[r].spot)]]
  /\ UNCHANGED <<now, interactions, spotViews, lastDone, started, viewCalls,
                 durReported>>

\* get_or_create, second statement: INSERT with the defaults; the unique
\* constraint on (user, spot) turns a lost race into IntegrityError, after
\* which get_or_create selects the row again and reports created=False.
\* Both callers are finished once the row is created.
CreateInteraction(r) ==
  /\ reqs[r].pc = "create"
  /\ LET q == reqs[r]
         k == Key(q.user, q.spot)
     IN IF interactions[k].exists
          THEN /\ reqs' = [reqs EXCEPT ![r].pc = "update",
                                       ![r].interaction = interactions[k]]
               /\ UNCHANGED <<interactions, lastDone>>
          ELSE /\ interactions' = [interactions EXCEPT ![k] =
                     NewInteraction(1, IF IsViewKind(q.kind) THEN 0 ELSE q.duration)]
               /\ Respond(r, q.kind, q.user, "200")
  /\ UNCHANGED <<now, spotViews, started, viewCalls, durReported>>

\* the statement after get_or_create when the row already existed:
\* log_spot_view increments view_count; update_view_duration adds the
\* duration unless it is zero
UpdateInteraction(r) ==
  /\ reqs[r].pc = "update"
  /\ LET q == reqs[r]
         k == Key(q.user, q.spot)
     IN /\ interactions' =
             IF IsViewKind(q.kind)
               THEN [interactions EXCEPT ![k] = IncrementViewCount(@, q.interaction)]
               ELSE IF q.duration = 0
                 THEN interactions
                 ELSE [interactions EXCEPT ![k] =
                          AddDuration(@, q.interaction, q.duration)]
        /\ Respond(r, q.kind, q.user, "200")
  /\ UNCHANGED <<now, spotViews, started, viewCalls, durReported>>

(***************************************************************************)
(* Reviews: views.add_review, api_views.add_review_api, models.Review      *)
(***************************************************************************)
\* validators=[MinValueValidator(1), MaxValueValidator(5)]
MinRating == 1
MaxRating == 5
\* the rating and comment fields a client submits
Ratings == {0, 4}
Comments == {"", "good"}

IdleReview == [pc |-> "idle", kind |-> "none", user |-> Anonymous, spot |-> "s1",
               rating |-> 0]

\* ReviewForm.is_valid(): rating is a number within the validators' range and
\* the comment (a required field) is not empty
ReviewFormIsValid(rating, comment) ==
  rating >= MinRating /\ rating <= MaxRating /\ comment # ""

\* Review.objects.filter(spot=spot, user=request.user).first() / .exists()
ExistingReview(spot, user) ==
  \E i \in 1..Len(reviews) : reviews[i].spot = spot /\ reviews[i].user = user

ReviewNotConstrained(rows, spot, user) == FALSE

\* unique_together = ['spot', 'user']: the INSERT of a second row for the pair
\* raises IntegrityError
ReviewUniqueTogetherViolated(rows, spot, user) ==
  \E i \in 1..Len(rows) : rows[i].spot = spot /\ rows[i].user = user

ReviewAnswer(r, kind, user, response) ==
  /\ reviewReqs' = [reviewReqs EXCEPT ![r] = IdleReview]
  /\ lastDone' = [kind |-> kind, user |-> user, response |-> response]

ReviewCanStart(r) ==
  /\ reviewReqs[r].pc = "idle"
  /\ \A q \in Slots : q < r => reviewReqs[q].pc # "idle"
  /\ started < MaxRequests

ReviewProceed(r, kind, user, spot, rating) ==
  /\ reviewReqs' = [reviewReqs EXCEPT ![r] =
       [pc |-> "check", kind |-> kind, user |-> user, spot |-> spot,
        rating |-> rating]]
  /\ UNCHANGED lastDone

\* add_review up to its SELECT: @login_required; a request that is no POST,
\* or whose form is invalid, is redirected to the spot page unchanged
AddReview(r, method, user, spot, rating, comment) ==
  /\ ReviewCanStart(r)
  /\ started' = started + 1
  /\ IF ~IsAuthenticated(user)
       THEN ReviewAnswer(r, "add_review", user, "redirect_login")
       ELSE IF method # "POST" \/ ~ReviewFormIsValid(rating, comment)
       THEN ReviewAnswer(r, "add_review", user, "redirect_spot")
       ELSE ReviewProceed(r, "add_review", user, spot, rating)
  /\ UNCHANGED reviews

\* add_review_api up to its SELECT: @require_POST, 401 for an anonymous
\* client, 400 for an invalid form
AddReviewApi(r, method, user, spot, rating, comment) ==
  /\ ReviewCanStart(r)
  /\ started' = started + 1
  /\ IF method # "POST"
       THEN ReviewAnswer(r, "add_review_api", user, "405")
       ELSE IF ~IsAuthenticated(user)
       THEN ReviewAnswer(r, "add_review_api", user, "401")
       ELSE IF ~ReviewFormIsValid(rating, comment)
       THEN ReviewAnswer(r, "add_review_api", user, "400")
       ELSE ReviewProceed(r, "add_review_api", user, spot, rating)
  /\ UNCHANGED reviews

\* the check for an existing review of the pair (a SELECT)
CheckExistingReview(r) ==
  /\ reviewReqs[r].pc = "check"
  /\ LET q == reviewReqs[r]
     IN IF ExistingReview(q.spot, q.user)
          THEN ReviewAnswer(r, q.kind, q.user,
                 IF q.kind = "add_review" THEN "redirect_spot" ELSE "400")
          ELSE /\ reviewReqs' = [reviewReqs EXCEPT ![r].pc = "save"]
               /\ UNCHANGED lastDone
  /\ UNCHANGED <<reviews, started>>

\* review.save() (an INSERT); neither view catches IntegrityError
SaveReview(r) ==
  /\ reviewReqs[r].pc = "save"
  /\ LET q == reviewReqs[r]
     IN IF ReviewUniqueTogetherViolated(reviews, q.spot, q.user)
          THEN /\ ReviewAnswer(r, q.kind, q.user, "500")
               /\ UNCHANGED reviews
          ELSE /\ reviews' = Append(reviews,
                     [spot |-> q.spot, user |-> q.user, rating |-> q.rating])
               /\ ReviewAnswer(r, q.kind, q.user,
                    IF q.kind = "add_review" THEN "redirect_spot" ELSE "200")
  /\ UNCHANGED started

ReviewRequest ==
  \/ \E r \in Slots, method \in Methods, user \in Clients, spot \in Spots,
        rating \in Ratings, comment \in Comments :
       AddReview(r, method, user, spot, rating, comment)
  \/ \E r \in Slots, method \in Methods, user \in Clients, spot \in Spots,
        rating \in Ratings, comment \in Comments :
       AddReviewApi(r, method, user, spot, rating, comment)
  \/ \E r \in Slots : CheckExistingReview(r)
  \/ \E r \in Slots : SaveReview(r)

(***************************************************************************)
(* Favorites: services/interactions.py, views.py, api_views.py             *)
(***************************************************************************)
NoToggle == [called |-> FALSE, user |-> Anonymous, spot |-> "s1",
             before |-> {}, result |-> FALSE]

FavoriteNeverExists(favs, user, spot) == FALSE

\* profile.favorite_spots.filter(pk=spot.pk).exists()
FavoriteExists(favs, user, spot) == <<user, spot>> \in favs

\* UserProfile.objects.filter(user=user, favorite_spots=spot).exists(),
\* False for a user that is not authenticated
is_favorite_spot(profs, favs, spot, user) ==
  /\ IsAuthenticated(user)
  /\ user \in profs
  /\ <<user, spot>> \in favs

\* toggle_favorite_spot for an authenticated user: the profile row is fetched
\* or created, the spot is removed when it is a favorite and added otherwise
toggle_favorite_spot(spot, user) ==
  LET exists == FavoriteExists(favorites, user, spot) IN
  /\ IsAuthenticated(user)
  /\ profiles' = profiles \cup {user}
  /\ favorites' = IF exists THEN favorites \ {<<user, spot>>}
                            ELSE favorites \cup {<<user, spot>>}
  /\ lastToggle' = [called |-> TRUE, user |-> user, spot |-> spot,
                    before |-> favorites, result |-> ~exists]

FavAnswer(kind, user, response) ==
  favResponse' = [kind |-> kind, user |-> user, response |-> response]

\* views.toggle_favorite: @login_required, toggles on POST, redirects to the spot
ToggleFavorite(method, user, spot) ==
  IF ~IsAuthenticated(user)
  THEN /\ FavAnswer("toggle_favorite", user, "redirect_login")
       /\ UNCHANGED <<profiles, favorites, lastToggle>>
  ELSE IF method = "POST"
  THEN /\ toggle_favorite_spot(spot, user)
       /\ FavAnswer("toggle_favorite", user,
                    IF lastToggle'.result THEN "added" ELSE "removed")
  ELSE /\ FavAnswer("toggle_favorite", user, "redirect_spot")
       /\ UNCHANGED <<profiles, favorites, lastToggle>>

\* api_views.toggle_favorite_api: @require_POST, 401 for an anonymous client
ToggleFavoriteApi(method, user, spot) ==
  IF method # "POST"
  THEN /\ FavAnswer("toggle_favorite_api", user, "405")
       /\ UNCHANGED <<profiles, favorites, lastToggle>>
  ELSE IF ~IsAuthenticated(user)
  THEN /\ FavAnswer("toggle_favorite_api", user, "401")
       /\ UNCHANGED <<profiles, favorites, lastToggle>>
  ELSE /\ toggle_favorite_spot(spot, user)
       /\ FavAnswer("toggle_favorite_api", user,
                    IF lastToggle'.result THEN "is_favorite" ELSE "not_favorite")

FavoriteRequest ==
  \/ \E method \in Methods, user \in Clients, spot \in Spots :
       ToggleFavorite(method, user, spot)
  \/ \E method \in Methods, user \in Clients, spot \in Spots :
       ToggleFavoriteApi(method, user, spot)

InitFavorite ==
  /\ profiles = {}
  /\ favorites = {}
  /\ lastToggle = NoToggle
  /\ favResponse = NoneDone

(***************************************************************************)
(* Weekly ranking: views.ranking, api_views.ranking_data                   *)
(***************************************************************************)
\* timedelta(days=7)
RankingDays == 7
\* ranked_spots[:7]
RankingLimit == 7
\* the Spot rows of the ranking model, one more than the ranking shows
RankingSpots == 1..(RankingLimit + 1)
\* the spots that were viewed once on day 0
SeededSpots == 1..RankingLimit
\* the spots that are viewed after day 0: the oldest, one in the middle and
\* the newest, which was not viewed on day 0
ViewedSpots == {1, 5, RankingLimit + 1}
\* views logged in one behaviour, after those of day 0
MaxViews == 2
\* the last day
MaxDay == 9

\* Spot.created_at (auto_now_add): the rows were created in the order of
\* their primary keys
created_at(spot) == spot

NoRanking == [answered |-> FALSE, kind |-> "none", status |-> "none", spots |-> <<>>]

InWindowAlways(viewed_at, week_ago) == TRUE

\* Q(spot_views__viewed_at__gte=week_ago)
InWindow(viewed_at, week_ago) == viewed_at >= week_ago

\* Count('spot_views', filter=Q(spot_views__viewed_at__gte=week_ago))
weekly_views(spot, week_ago) ==
  Cardinality({i \in 1..Len(spotViews[spot]) : InWindow(spotViews[spot][i], week_ago)})

\* order_by('-weekly_views', '-created_at'): x is sorted before y
OrderedBefore(x, y, week_ago) ==
  \/ weekly_views(x, week_ago) > weekly_views(y, week_ago)
  \/ /\ weekly_views(x, week_ago) = weekly_views(y, week_ago)
     /\ created_at(x) > created_at(y)

RECURSIVE OrderBy(_, _)
OrderBy(rows, week_ago) ==
  IF rows = {} THEN <<>>
  ELSE LET first == CHOOSE x \in rows :
                      \A y \in rows \ {x} : OrderedBefore(x, y, week_ago)
       IN <<first>> \o OrderBy(rows \ {first}, week_ago)

\* queryset[:n]
Slice(rows, n) == SubSeq(rows, 1, IF Len(rows) < n THEN Len(rows) ELSE n)

\* the queryset of ranking / ranking_data, evaluated
ranked_spots ==
  LET week_ago == now - RankingDays
      annotated == {s \in RankingSpots : weekly_views(s, week_ago) > 0}
      ordered == OrderBy(annotated, week_ago)
      top == Slice(ordered, RankingLimit)
  IN [i \in 1..Len(top) |->
        [spot |-> top[i], weekly_views |-> weekly_views(top[i], week_ago)]]

\* views.ranking (any method) and api_views.ranking_data (@require_GET)
Ranking(kind, method) ==
  /\ ranked' = IF kind = "ranking_data" /\ method # "GET"
               THEN [answered |-> TRUE, kind |-> kind, status |-> "405", spots |-> <<>>]
               ELSE [answered |-> TRUE, kind |-> kind, status |-> "200",
                     spots |-> ranked_spots]
  /\ UNCHANGED <<now, spotViews, started>>

\* a view of a spot page by an anonymous visitor: one SpotView row
ViewSpot(spot) ==
  /\ started < MaxViews
  /\ started' = started + 1
  /\ spotViews' = CreateSpotView(spot)
  /\ ranked' = NoRanking
  /\ UNCHANGED now

\* a day passes
Tick ==
  /\ now < MaxDay
  /\ now' = now + 1
  /\ ranked' = NoRanking
  /\ UNCHANGED <<spotViews, started>>

RankingRequest ==
  \/ \E kind \in {"ranking", "ranking_data"}, method \in Methods : Ranking(kind, method)
  \/ \E spot \in ViewedSpots : ViewSpot(spot)
  \/ Tick

(***************************************************************************)
(* Spot list: views.spots_api, views.add_spot                              *)
(***************************************************************************)
\* Spot rows created in one behaviour
MaxSpots == 3

\* text is a sequence of characters
UpperCase == <<"M", "I", "N", "E", "O", "T", "H", "R", "S", "A", "L">>
LowerCase == <<"m", "i", "n", "e", "o", "t", "h", "r", "s", "a", "l">>

Mine == <<"m", "i", "n", "e">>
Others == <<"o", "t", "h", "e", "r", "s">>

\* request.GET: the filter parameter is absent, or has a value
NoParam == [present |-> FALSE, value |-> <<>>]
Param(text) == [present |-> TRUE, value |-> text]
FilterParams ==
  {NoParam, Param(<<>>), Param(Mine), Param(Others),
   Param(<<"M", "I", "N", "E">>), Param(<<"O", "t", "h", "e", "r", "s">>),
   Param(<<"a", "l", "l">>), Param(<<"m", "i", "n">>), Param(<<"m", "i", "n", "e", "s">>)}

NoApiResponse == [answered |-> FALSE, user |-> Anonymous, filter |-> NoParam, spots |-> {}]

LowerUnchanged(text) == text

\* str.lower()
Lower(text) ==
  [i \in 1..Len(text) |->
     IF \E k \in 1..Len(UpperCase) : UpperCase[k] = text[i]
     THEN LowerCase[CHOOSE k \in 1..Len(UpperCase) : UpperCase[k] = text[i]]
     ELSE text[i]]

\* (request.GET.get('filter') or '').lower()
filter_mode(param) == Lower(IF param.present THEN param.value ELSE <<>>)

\* the primary keys of the rows spots_api serializes
spots_api(user, param) ==
  LET all == 1..Len(spotRows)
      mode == filter_mode(param) IN
  IF IsAuthenticated(user) /\ mode \in {Mine, Others}
  THEN IF mode = Mine
       THEN {pk \in all : spotRows[pk] = user}
       ELSE {pk \in all : ~(spotRows[pk] = user)}
  ELSE all

SpotsApi(user, param) ==
  /\ apiResponse' = [answered |-> TRUE, user |-> user, filter |-> param,
                     spots |-> spots_api(user, param)]
  /\ UNCHANGED spotRows

\* views.add_spot: @login_required; a valid POST saves a Spot with
\* created_by = request.user
AddSpot(method, user, valid) ==
  /\ Len(spotRows) < MaxSpots
  /\ spotRows' = IF IsAuthenticated(user) /\ method = "POST" /\ valid
                 THEN Append(spotRows, user) ELSE spotRows
  /\ apiResponse' = NoApiResponse

SpotsApiRequest ==
  \/ \E user \in Clients, param \in FilterParams : SpotsApi(user, param)
  \/ \E method \in Methods, user \in Clients, valid \in BOOLEAN :
       AddSpot(method, user, valid)

InitSpotsApi ==
  /\ spotRows = <<>>
  /\ apiResponse = NoApiResponse

(***************************************************************************)
(* Custom admin (manage/): admin_views.py, forms.py                        *)
(***************************************************************************)
\* admin requests made in one behaviour
MaxAdminRequests == 2
\* a primary key that no row has
MissingPk == 99
\* the permissions the user views require
Perms == {"auth.view_user", "auth.add_user", "auth.change_user"}
\* the models with list / add / edit / delete views
AdminModels == {"spot", "tag", "review", "group"}
\* the tables behind the admin views, other than User and UserProfile
AdminTables == AdminModels \cup {"setting", "score"}

\* the accounts of the admin model, by primary key: a superuser, a staff
\* member with the three user permissions who belongs to group 1, a visitor
InitialUsers ==
  << [username |-> "root", email |-> "", is_active |-> TRUE, is_staff |-> TRUE,
      is_superuser |-> TRUE, groups |-> {}, user_permissions |-> {},
      password |-> "old"],
     [username |-> "staff", email |-> "", is_active |-> TRUE, is_staff |-> TRUE,
      is_superuser |-> FALSE, groups |-> {1}, user_permissions |-> Perms,
      password |-> "old"],
     [username |-> "visitor", email |-> "", is_active |-> TRUE, is_staff |-> FALSE,
      is_superuser |-> FALSE, groups |-> {}, user_permissions |-> {},
      password |-> "old"] >>

\* request.user without a session, where users are primary keys
AnonymousUser == 0
\* the sessions that send requests: none, or the session of an account
AdminClients == {AnonymousUser} \cup (1..Len(InitialUsers))

\* request.POST: a form that asks for every privilege, a form that takes
\* every privilege away, and a form that does not validate
Escalate ==
  [name |-> "escalate", valid |-> TRUE, username |-> "eve",
   email |-> "eve@example.com", is_active |-> TRUE, is_staff |-> TRUE,
   is_superuser |-> TRUE, groups |-> {1}, user_permissions |-> Perms,
   password |-> "new", bio |-> "bio"]
Demote ==
  [name |-> "demote", valid |-> TRUE, username |-> "dan",
   email |-> "", is_active |-> FALSE, is_staff |-> FALSE,
   is_superuser |-> FALSE, groups |-> {}, user_permissions |-> {},
   password |-> "new", bio |-> ""]
Invalid == [Escalate EXCEPT !.name = "invalid", !.valid = FALSE]

NoAdminResponse ==
  [view |-> "none", method |-> "GET", client |-> AnonymousUser, role |-> "none",
   pk |-> MissingPk, data |-> "none", status |-> "none"]

\* the rows of a table that exist, by primary key
ExistingPks(rows) == {pk \in 1..Len(rows) : rows[pk].exists}

\* AuthenticationMiddleware: request.user is the account of the session when
\* that account exists and is active, AnonymousUser otherwise
request_user(client) ==
  IF client \in 1..Len(userRows) /\ userRows[client].is_active
  THEN client ELSE AnonymousUser

\* who sends the request: an anonymous client, a staff member, another user
Role(client) ==
  IF request_user(client) = AnonymousUser THEN "anonymous"
  ELSE IF userRows[request_user(client)].is_staff THEN "staff" ELSE "user"

\* the permissions of the groups of the user
GroupPermissions(user) ==
  UNION {adminRecords["group"][g].value :
           g \in userRows[user].groups \cap ExistingPks(adminRecords["group"])}

\* User.has_perms
has_perms(user, perms) ==
  /\ userRows[user].is_active
  /\ \/ userRows[user].is_superuser
     \/ perms \subseteq (userRows[user].user_permissions \cup GroupPermissions(user))

\* StaffRequiredMixin.test_func / AdminPermissionRequiredMixin.test_func
\* (required_permissions is empty for the views that mix in the former)
test_func(user, required_permissions) ==
  /\ userRows[user].is_staff
  /\ \/ userRows[user].is_superuser
     \/ required_permissions = {}
     \/ has_perms(user, required_permissions)

\* LoginRequiredMixin.dispatch, UserPassesTestMixin.dispatch and
\* StaffRequiredMixin.handle_no_permission
Dispatch(client, required_permissions) ==
  IF request_user(client) = AnonymousUser THEN "redirect_login"
  ELSE IF ~test_func(request_user(client), required_permissions) THEN "redirect_home"
  ELSE "ok"

AdminAnswer(view, method, client, pk, data, status) ==
  /\ adminRequests < MaxAdminRequests
  /\ adminRequests' = adminRequests + 1
  /\ adminResponse' = [view |-> view, method |-> method, client |-> client,
                       role |-> Role(client), pk |-> pk, data |-> data.name,
                       status |-> status]

\* the value a form stores in a row of the model
FormValue(model, data) ==
  IF model = "group" THEN data.user_permissions ELSE data.username

\* UserProfile.objects.get_or_create(user=...)
GetOrCreateProfile(user) ==
  IF \E p \in profileRows : p.user = user THEN profileRows
  ELSE profileRows \cup {[user |-> user, bio |-> ""]}

\* the views that only render: the dashboard and the lists (get only)
RenderViews ==
  {"admin_dashboard", "admin_spot_list", "admin_tag_list", "admin_group_list",
   "admin_user_list", "admin_profile_list", "admin_spotview_list",
   "admin_recommendation_logs"}

\* required_permissions of the view
RequiredPermissions(view, method) ==
  CASE view = "admin_user_list" -> {"auth.view_user"}
    [] view = "admin_user_add" -> {"auth.add_user"}
    [] view = "admin_user_detail" ->
         IF method = "POST" THEN {"auth.change_user"} ELSE {"auth.view_user"}
    [] view = "admin_user_password" -> {"auth.change_user"}
    [] OTHER -> {}

\* AdminDashboardView and the ListViews without a post method
AdminRender(view, method, client) ==
  LET access == Dispatch(client, RequiredPermissions(view, method)) IN
  /\ AdminAnswer(view, method, client, MissingPk, Escalate,
                 IF access # "ok" THEN access
                 ELSE IF method = "GET" THEN "200" ELSE "405")
  /\ UNCHANGED <<userRows, adminRecords, profileRows>>

\* SpotAdminCreateView, TagAdminCreateView, ReviewAdminCreateView,
\* GroupAdminCreateView
AdminCreate(model, method, client, data) ==
  LET view == "admin_" \o model \o "_add"
      access == Dispatch(client, {}) IN
  IF access # "ok"
  THEN /\ AdminAnswer(view, method, client, MissingPk, data, access)
       /\ UNCHANGED <<userRows, adminRecords, profileRows>>
  ELSE IF method = "POST" /\ data.valid
  THEN /\ adminRecords' = [adminRecords EXCEPT ![model] =
            Append(@, [exists |-> TRUE, value |-> FormValue(model, data)])]
       /\ AdminAnswer(view, method, client, MissingPk, data, "302")
       /\ UNCHANGED <<userRows, profileRows>>
  ELSE /\ AdminAnswer(view, method, client, MissingPk, data, "200")
       /\ UNCHANGED <<userRows, adminRecords, profileRows>>

\* SpotAdminUpdateView, TagAdminUpdateView, ReviewAdminUpdateView,
\* GroupAdminUpdateView
AdminUpdate(model, method, client, pk, data) ==
  LET view == "admin_" \o model \o "_edit"
      access == Dispatch(client, {}) IN
  IF access # "ok"
  THEN /\ AdminAnswer(view, method, client, pk, data, access)
       /\ UNCHANGED <<userRows, adminRecords, profileRows>>
  ELSE IF pk \notin ExistingPks(adminRecords[model])
  THEN /\ AdminAnswer(view, method, client, pk, data, "404")
       /\ UNCHANGED <<userRows, adminRecords, profileRows>>
  ELSE IF method = "POST" /\ data.valid
  THEN /\ adminRecords' = [adminRecords EXCEPT ![model][pk].value =
                             FormValue(model, data)]
       /\ AdminAnswer(view, method, client, pk, data, "302")
       /\ UNCHANGED <<userRows, profileRows>>
  ELSE /\ AdminAnswer(view, method, client, pk, data, "200")
       /\ UNCHANGED <<userRows, adminRecords, profileRows>>

\* the rows of the users without their membership of the group
WithoutGroup(pk) ==
  [u \in 1..Len(userRows) |-> [userRows[u] EXCEPT !.groups = @ \ {pk}]]

\* SpotAdminDeleteView, TagAdminDeleteView, ReviewAdminDeleteView,
\* GroupAdminDeleteView: the row is deleted on POST, with the memberships of
\* a deleted group
AdminDelete(model, method, client, pk) ==
  LET view == "admin_" \o model \o "_delete"
      access == Dispatch(client, {}) IN
  IF access # "ok"
  THEN /\ AdminAnswer(view, method, client, pk, Escalate, access)
       /\ UNCHANGED <<userRows, adminRecords, profileRows>>
  ELSE IF pk \notin ExistingPks(adminRecords[model])
  THEN /\ AdminAnswer(view, method, client, pk, Escalate, "404")
       /\ UNCHANGED <<userRows, adminRecords, profileRows>>
  ELSE IF method = "POST"
  THEN /\ adminRecords' = [adminRecords EXCEPT ![model][pk] = NoRow]
       /\ userRows' = IF model = "group" THEN WithoutGroup(pk) ELSE userRows
       /\ AdminAnswer(view, method, client, pk, Escalate, "302")
       /\ UNCHANGED profileRows
  ELSE /\ AdminAnswer(view, method, client, pk, Escalate, "200")
       /\ UNCHANGED <<userRows, adminRecords, profileRows>>

\* ReviewAdminListView: the list on GET, delete_selected on POST
ReviewAdminList(method, client, pk) ==
  LET view == "admin_review_list"
      access == Dispatch(client, {}) IN
  IF access # "ok"
  THEN /\ AdminAnswer(view, method, client, pk, Escalate, access)
       /\ UNCHANGED <<userRows, adminRecords, profileRows>>
  ELSE IF method = "POST"
  THEN /\ adminRecords' =
            IF pk \in ExistingPks(adminRecords["review"])
            THEN [adminRecords EXCEPT !["review"][pk] = NoRow] ELSE adminRecords
       /\ AdminAnswer(view, method, client, pk, Escalate, "302")
       /\ UNCHANGED <<userRows, profileRows>>
  ELSE /\ AdminAnswer(view, method, client, pk, Escalate, "200")
       /\ UNCHANGED <<userRows, adminRecords, profileRows>>

\* get_or_create_job_setting: the first RecommendationJobSetting row, created
\* when there is none
GetOrCreateJobSetting ==
  IF ExistingPks(adminRecords["setting"]) # {} THEN adminRecords
  ELSE [adminRecords EXCEPT !["setting"] =
          Append(@, [exists |-> TRUE, value |-> "default"])]

\* RecommendationAdminView: the page (with the setting row) on GET; on POST
\* run_all stores scores, update_setting saves the setting when the interval
\* is a number
RecommendationAdmin(method, client, action, data) ==
  LET view == "admin_recommendation"
      access == Dispatch(client, {})
      withSetting == GetOrCreateJobSetting IN
  IF access # "ok"
  THEN /\ AdminAnswer(view, method, client, MissingPk, data, access)
       /\ UNCHANGED <<userRows, adminRecords, profileRows>>
  ELSE IF method = "GET"
  THEN /\ adminRecords' = withSetting
       /\ AdminAnswer(view, method, client, MissingPk, data, "200")
       /\ UNCHANGED <<userRows, profileRows>>
  ELSE /\ adminRecords' =
            IF action = "run_all"
            THEN [adminRecords EXCEPT !["score"] =
                    Append(@, [exists |-> TRUE, value |-> "score"])]
            ELSE IF data.valid
            THEN [withSetting EXCEPT !["setting"][1].value = data.username]
            ELSE withSetting
       /\ AdminAnswer(view, method, client, MissingPk, data, "302")
       /\ UNCHANGED <<userRows, profileRows>>

\* RecommendationUserScoreListView: the list on GET, delete_selected on POST
RecommendationUserScoreList(method, client, pk) ==
  LET view == "admin_recommendation_scores"
      access == Dispatch(client, {}) IN
  IF access # "ok"
  THEN /\ AdminAnswer(view, method, client, pk, Escalate, access)
       /\ UNCHANGED <<userRows, adminRecords, profileRows>>
  ELSE IF method = "POST"
  THEN /\ adminRecords' =
            IF pk \in ExistingPks(adminRecords["score"])
            THEN [adminRecords EXCEPT !["score"][pk] = NoRow] ELSE adminRecords
       /\ AdminAnswer(view, method, client, pk, Escalate, "302")
       /\ UNCHANGED <<userRows, profileRows>>
  ELSE /\ AdminAnswer(view, method, client, pk, Escalate, "200")
       /\ UNCHANGED <<userRows, adminRecords, profileRows>>

\* UserAdminForm.privileged_fields
privileged_fields == {"is_staff", "is_superuser", "groups", "user_permissions"}

AllUserAdminFormFields(user) == {"username", "email", "is_active"} \cup privileged_fields

\* UserAdminForm.__init__: the fields of the form for request_user
UserAdminFormFields(user) ==
  {"username", "email", "is_active"}
    \cup (IF userRows[user].is_superuser THEN privileged_fields ELSE {})

AllUserAdminCreateFormFields(user) ==
  {"username", "email", "password1", "password2", "is_active"} \cup privileged_fields

\* UserAdminCreateForm.__init__: the fields of the form for request_user
UserAdminCreateFormFields(user) ==
  {"username", "email", "password1", "password2", "is_active"}
    \cup (IF userRows[user].is_superuser THEN privileged_fields ELSE {})

\* is_valid of the user forms: the data validates, the username is not that
\* of another row, the groups of a groups field exist
UserFormIsValid(fields, data, instance) ==
  /\ data.valid
  /\ \A u \in 1..Len(userRows) : userRows[u].username = data.username => u = instance
  /\ "groups" \in fields => data.groups \subseteq ExistingPks(adminRecords["group"])

\* ModelForm.save: only the fields of the form are written to the row
SaveUser(row, fields, data) ==
  [username |-> data.username,
   email |-> data.email,
   is_active |-> data.is_active,
   is_staff |-> IF "is_staff" \in fields THEN data.is_staff ELSE row.is_staff,
   is_superuser |-> IF "is_superuser" \in fields THEN data.is_superuser
                                                    ELSE row.is_superuser,
   groups |-> IF "groups" \in fields THEN data.groups ELSE row.groups,
   user_permissions |-> IF "user_permissions" \in fields THEN data.user_permissions
                                                            ELSE row.user_permissions,
   password |-> IF "password1" \in fields THEN data.password ELSE row.password]

\* User(): the defaults of the model
NewUser ==
  [username |-> "", email |-> "", is_active |-> TRUE, is_staff |-> FALSE,
   is_superuser |-> FALSE, groups |-> {}, user_permissions |-> {}, password |-> ""]

\* UserAdminCreateView with UserAdminCreateForm
UserAdminCreate(method, client, data) ==
  LET view == "admin_user_add"
      access == Dispatch(client, RequiredPermissions(view, method))
      fields == UserAdminCreateFormFields(request_user(client)) IN
  IF access # "ok"
  THEN /\ AdminAnswer(view, method, client, MissingPk, data, access)
       /\ UNCHANGED <<userRows, adminRecords, profileRows>>
  ELSE IF method = "POST" /\ UserFormIsValid(fields, data, MissingPk)
  THEN /\ userRows' = Append(userRows, SaveUser(NewUser, fields, data))
       /\ AdminAnswer(view, method, client, MissingPk, data, "302")
       /\ UNCHANGED <<adminRecords, profileRows>>
  ELSE /\ AdminAnswer(view, method, client, MissingPk, data, "200")
       /\ UNCHANGED <<userRows, adminRecords, profileRows>>

\* UserProfileAdminForm.save
SaveProfile(rows, user, data) ==
  {IF p.user = user THEN [p EXCEPT !.bio = data.bio] ELSE p : p \in rows}

\* UserAdminDetailView: dispatch looks the user up before the access test;
\* get and post fetch or create the profile; post saves both forms when both
\* are valid
UserAdminDetail(method, client, pk, data) ==
  LET view == "admin_user_detail"
      access == Dispatch(client, RequiredPermissions(view, method))
      fields == UserAdminFormFields(request_user(client)) IN
  IF pk \notin 1..Len(userRows)
  THEN /\ AdminAnswer(view, method, client, pk, data, "404")
       /\ UNCHANGED <<userRows, adminRecords, profileRows>>
  ELSE IF access # "ok"
  THEN /\ AdminAnswer(view, method, client, pk, data, access)
       /\ UNCHANGED <<userRows, adminRecords, profileRows>>
  ELSE IF method = "POST" /\ UserFormIsValid(fields, data, pk)
  THEN /\ userRows' = [userRows EXCEPT ![pk] = SaveUser(@, fields, data)]
       /\ profileRows' = SaveProfile(GetOrCreateProfile(pk), pk, data)
       /\ AdminAnswer(view, method, client, pk, data, "302")
       /\ UNCHANGED adminRecords
  ELSE /\ profileRows' = GetOrCreateProfile(pk)
       /\ AdminAnswer(view, method, client, pk, data, "200")
       /\ UNCHANGED <<userRows, adminRecords>>

\* UserAdminPasswordChangeView: dispatch looks the user up before the access
\* test; a valid AdminPasswordChangeForm sets the password
UserAdminPasswordChange(method, client, pk, data) ==
  LET view == "admin_user_password"
      access == Dispatch(client, RequiredPermissions(view, method)) IN
  IF pk \notin 1..Len(userRows)
  THEN /\ AdminAnswer(view, method, client, pk, data, "404")
       /\ UNCHANGED <<userRows, adminRecords, profileRows>>
  ELSE IF access # "ok"
  THEN /\ AdminAnswer(view, method, client, pk, data, access)
       /\ UNCHANGED <<userRows, adminRecords, profileRows>>
  ELSE IF method = "POST" /\ data.valid
  THEN /\ userRows' = [userRows EXCEPT ![pk].password = data.password]
       /\ AdminAnswer(view, method, client, pk, data, "302")
       /\ UNCHANGED <<adminRecords, profileRows>>
  ELSE /\ AdminAnswer(view, method, client, pk, data, "200")
       /\ UNCHANGED <<userRows, adminRecords, profileRows>>

\* every manage/ URL, with one form
AdminAccessRequest ==
  \/ \E view \in RenderViews, method \in Methods, client \in AdminClients :
       AdminRender(view, method, client)
  \/ \E model \in AdminModels, method \in Methods, client \in AdminClients :
       AdminCreate(model, method, client, Escalate)
  \/ \E model \in AdminModels, method \in Methods, client \in AdminClients,
        pk \in {1, MissingPk} : AdminUpdate(model, method, client, pk, Demote)
  \/ \E model \in AdminModels, method \in Methods, client \in AdminClients,
        pk \in {1, MissingPk} : AdminDelete(model, method, client, pk)
  \/ \E method \in Methods, client \in AdminClients, pk \in {1, MissingPk} :
       ReviewAdminList(method, client, pk)
  \/ \E method \in Methods, client \in AdminClients,
        action \in {"run_all", "update_setting"} :
       RecommendationAdmin(method, client, action, Demote)
  \/ \E method \in Methods, client \in AdminClients, pk \in {1, MissingPk} :
       RecommendationUserScoreList(method, client, pk)
  \/ \E method \in Methods, client \in AdminClients :
       UserAdminCreate(method, client, Escalate)
  \/ \E method \in Methods, client \in AdminClients, pk \in {1, MissingPk} :
       UserAdminDetail(method, client, pk, Demote)
  \/ \E method \in Methods, client \in AdminClients, pk \in {1, MissingPk} :
       UserAdminPasswordChange(method, client, pk, Demote)

\* the user views, with every form and every user as the target
UserAdminRequest ==
  \/ \E method \in Methods, client \in AdminClients :
       AdminRender("admin_user_list", method, client)
  \/ \E method \in Methods, client \in AdminClients,
        data \in {Escalate, Demote, Invalid} : UserAdminCreate(method, client, data)
  \/ \E method \in Methods, client \in AdminClients,
        pk \in (1..(Len(InitialUsers) + 1)) \cup {MissingPk},
        data \in {Escalate, Demote, Invalid} :
       UserAdminDetail(method, client, pk, data)
  \/ \E method \in Methods, client \in AdminClients,
        pk \in (1..(Len(InitialUsers) + 1)) \cup {MissingPk},
        data \in {Escalate, Demote, Invalid} :
       UserAdminPasswordChange(method, client, pk, data)

InitAdmin ==
  /\ userRows = InitialUsers
  /\ adminRecords = [t \in AdminTables |->
                       IF t = "group" THEN <<[exists |-> TRUE, value |-> {}]>>
                                      ELSE <<>>]
  /\ profileRows = {}
  /\ adminResponse = NoAdminResponse
  /\ adminRequests = 0

(***************************************************************************)
(* Homepage: services/homepage.py                                          *)
(***************************************************************************)
\* Spot rows created in one behaviour
MaxHomeSpots == 2
\* the primary keys a Spot row can have
SpotIds == 1..MaxHomeSpots

ALLOWED_SORT_MODES == {"recent", "relevance"}
DEFAULT_SORT_MODE == "recent"
\* the values of the sort parameter a request can carry
SortModes == {"recent", "relevance", "Relevance"}

\* characters str.strip() removes
Whitespace == {" ", "\t"}

RECURSIVE LStrip(_)
LStrip(text) ==
  IF text # <<>> /\ Head(text) \in Whitespace THEN LStrip(Tail(text)) ELSE text

RECURSIVE RStrip(_)
RStrip(text) ==
  IF text # <<>> /\ text[Len(text)] \in Whitespace
  THEN RStrip(SubSeq(text, 1, Len(text) - 1)) ELSE text

StripNothing(text) == text

\* str.strip()
Strip(text) == RStrip(LStrip(text))

\* the search parameter: None, or a text
SearchQueries ==
  {NoParam, Param(<<" ", "\t">>), Param(<<" ", "A", "s", "\t">>),
   Param(<<"a", " ", "s">>), Param(<<"e">>)}

\* the Spot rows the model creates: the columns the search reads
HomeSpotTemplates ==
  {[title |-> <<"A", "s">>, description |-> <<>>, address |-> <<>>, tags |-> {}],
   [title |-> <<"m">>, description |-> <<"a", " ", "s">>, address |-> <<"s">>,
    tags |-> {<<"a">>, <<"t">>}]}

\* the scores an analysis can give, and the sources it can name
ScoreValues == {10, 20}
ScoreSources == {"api", "fallback"}
\* the users the analysis has scored
ScoredUsers == {"alice"}
ScoreMaps == UNION {[ids -> ScoreValues] : ids \in SUBSET SpotIds}

LoginNotice == "login_required"
NotComputedNotice == "not_computed"

NoHomeResult ==
  [answered |-> FALSE, user |-> Anonymous, query |-> NoParam, sort |-> DEFAULT_SORT_MODE,
   spots |-> <<>>, search_query |-> <<>>, sort_mode |-> DEFAULT_SORT_MODE,
   recommendation_source |-> "None", recommendation_notice |-> "None",
   recommendation_scored_ids |-> <<>>]

\* text contains sub
Contains(text, sub) ==
  \E i \in 0..(Len(text) - Len(sub)) : SubSeq(text, i + 1, i + Len(sub)) = sub

\* the icontains lookup
IContains(text, sub) == Contains(Lower(text), Lower(sub))

\* Spot.objects.all() under Meta.ordering = ['-created_at']: the primary
\* keys, newest first (a later row has a later created_at)
base_queryset == [i \in 1..Len(spotTable) |-> Len(spotTable) + 1 - i]

\* Q(title__icontains) | Q(description__icontains) | Q(address__icontains)
\* | Q(tags__name__icontains)
Matches(spot, query) ==
  \/ IContains(spotTable[spot].title, query)
  \/ IContains(spotTable[spot].description, query)
  \/ IContains(spotTable[spot].address, query)
  \/ \E tag \in spotTable[spot].tags : IContains(tag, query)

\* queryset.filter(...).distinct()
apply_search_filter(queryset, query) ==
  LET Keep(spot) == Matches(spot, query) IN SelectSeq(queryset, Keep)

\* UserRecommendationScore.objects.filter(user=user, spot__in=spots)
UserScores(user, spots) ==
  LET Mine_(row) == row.user = user /\ \E i \in 1..Len(spots) : spots[i] = row.spot
  IN SelectSeq(scoreRows, Mine_)

\* {score.spot_id: score.score for score in user_scores}: a later row of the
\* same spot replaces an earlier one
ScoreMap(user_scores) ==
  [spot \in {user_scores[i].spot : i \in 1..Len(user_scores)} |->
     LET last == CHOOSE i \in 1..Len(user_scores) :
                   /\ user_scores[i].spot = spot
                   /\ \A j \in (i + 1)..Len(user_scores) : user_scores[j].spot # spot
     IN user_scores[last].score]

\* list.sort(key=score, reverse=True) inserts one element: the sort is
\* stable, so the element goes after every element whose score is not lower
InsertDescending(sorted, spot, score_map) ==
  LET before == Cardinality({i \in 1..Len(sorted) :
                               score_map[sorted[i]] >= score_map[spot]})
  IN SubSeq(sorted, 1, before) \o <<spot>> \o SubSeq(sorted, before + 1, Len(sorted))

InsertAscending(sorted, spot, score_map) ==
  LET before == Cardinality({i \in 1..Len(sorted) :
                               score_map[sorted[i]] <= score_map[spot]})
  IN SubSeq(sorted, 1, before) \o <<spot>> \o SubSeq(sorted, before + 1, Len(sorted))

RECURSIVE SortAscending(_, _)
SortAscending(spots, score_map) ==
  IF spots = <<>> THEN <<>>
  ELSE InsertAscending(SortAscending(SubSeq(spots, 1, Len(spots) - 1), score_map),
                       spots[Len(spots)], score_map)

\* scored_spots.sort(key=lambda spot: score_map.get(spot.id, 0), reverse=True)
RECURSIVE SortScored(_, _)
SortScored(spots, score_map) ==
  IF spots = <<>> THEN <<>>
  ELSE InsertDescending(SortScored(SubSeq(spots, 1, Len(spots) - 1), score_map),
                        spots[Len(spots)], score_map)

build_recommendation_notice(source) ==
  IF source = "api" THEN "api_notice"
  ELSE IF source = "fallback" THEN "fallback_notice" ELSE "generic_notice"

Ordered(spots, source, notice, scored_ids) ==
  [spots |-> spots, source |-> source, notice |-> notice, scored_ids |-> scored_ids]

apply_recommendation_order(spots, user) ==
  LET user_scores == UserScores(user, spots)
      score_map == ScoreMap(user_scores)
      Scored(spot) == spot \in DOMAIN score_map
      Unscored(spot) == spot \notin DOMAIN score_map
      scored_spots == SortScored(SelectSeq(spots, Scored), score_map)
      unscored_spots == SelectSeq(spots, Unscored)
      source == user_scores[1].source IN
  IF spots = <<>> THEN Ordered(spots, "None", "None", <<>>)
  ELSE IF ~IsAuthenticated(user) THEN Ordered(spots, "None", LoginNotice, <<>>)
  ELSE IF user_scores = <<>> THEN Ordered(spots, "None", NotComputedNotice, <<>>)
  ELSE Ordered(scored_spots \o unscored_spots, source,
               build_recommendation_notice(source), scored_spots)

\* (search_query or "").strip()
normalized_query(query) == Strip(IF query.present THEN query.value ELSE <<>>)

normalized_sort(sort_mode) ==
  IF sort_mode \in ALLOWED_SORT_MODES THEN sort_mode ELSE DEFAULT_SORT_MODE

fetch_homepage_spots(user, search_query, sort_mode) ==
  LET query == normalized_query(search_query)
      sort == normalized_sort(sort_mode)
      spots_list == IF query # <<>> THEN apply_search_filter(base_queryset, query)
                    ELSE base_queryset
      ordered == IF sort = "relevance" THEN apply_recommendation_order(spots_list, user)
                 ELSE Ordered(spots_list, "None", "None", <<>>) IN
  [spots |-> ordered.spots, search_query |-> query, sort_mode |-> sort,
   recommendation_source |-> ordered.source,
   recommendation_notice |-> ordered.notice,
   recommendation_scored_ids |-> ordered.scored_ids]

\* views.home: one call of fetch_homepage_spots
Home(user, search_query, sort_mode) ==
  /\ homeResult' = [answered |-> TRUE, user |-> user, query |-> search_query,
                    sort |-> sort_mode] @@ fetch_homepage_spots(user, search_query, sort_mode)
  /\ UNCHANGED <<spotTable, scoreRows>>

\* Spot.objects.create(...)
CreateHomeSpot(row) ==
  /\ Len(spotTable) < MaxHomeSpots
  /\ spotTable' = Append(spotTable, row)
  /\ homeResult' = NoHomeResult
  /\ UNCHANGED scoreRows

\* the rows of a score map, in the order of the primary keys of the spots
RECURSIVE ScoreRowsOf(_, _, _, _)
ScoreRowsOf(user, scores, source, ids) ==
  IF ids = {} THEN <<>>
  ELSE LET spot == CHOOSE s \in ids : \A t \in ids : s <= t IN
       <<[user |-> user, spot |-> spot, score |-> scores[spot], source |-> source]>>
         \o ScoreRowsOf(user, scores, source, ids \ {spot})

\* the transaction of _compute_and_store_user_scores: the scores of the user
\* are deleted, and one row is created for every scored spot that exists
ReplaceScores(user, scores, source) ==
  LET Others_(row) == row.user # user IN
  SelectSeq(scoreRows, Others_)
    \o ScoreRowsOf(user, scores, source, DOMAIN scores \cap (1..Len(spotTable)))

\* an analysis of the user has given the scores
StoreUserScores(user, scores, source) ==
  /\ DOMAIN scores # {}
  /\ scoreRows' = ReplaceScores(user, scores, source)
  /\ homeResult' = NoHomeResult
  /\ UNCHANGED spotTable

HomepageRequest ==
  \/ \E user \in Clients, query \in SearchQueries, sort \in SortModes :
       Home(user, query, sort)
  \/ \E row \in HomeSpotTemplates : CreateHomeSpot(row)
  \/ \E user \in ScoredUsers, scores \in ScoreMaps, source \in ScoreSources :
       StoreUserScores(user, scores, source)

InitHomepage ==
  /\ spotTable = <<>>
  /\ scoreRows = <<>>
  /\ homeResult = NoHomeResult

(***************************************************************************)
(* Spot form: forms.SpotForm, forms._normalize_tags                        *)
(***************************************************************************)
\* Spot rows saved through the form in one behaviour
MaxFormSpots == 2
\* len(name) > 50
MaxTagLength == 50

\* a tag name that is too long
LongName == [i \in 1..(MaxTagLength + 1) |-> "a"]

\* the values of tags_text a request can carry
TagTexts ==
  {<<>>, <<" ", ",", " ">>, <<"a", ",", " ", "b", " ", ",", "a">>,
   <<" ", "b", ",", ",">>, <<"A", " ", "b", ",", "a">>,
   <<"b">> \o <<",">> \o LongName}

\* no user is passed (user=None)
None == "None"
\* instance.pk of an instance that is not saved yet
NoPk == 0

NoFormResult ==
  [saved |-> FALSE, valid |-> FALSE, pk |-> NoPk, new |-> FALSE, user |-> None,
   tags_text |-> <<>>]

\* str.split(','): the pieces between the commas
RECURSIVE Split(_)
Split(text) ==
  IF \A i \in 1..Len(text) : text[i] # "," THEN <<text>>
  ELSE LET comma == CHOOSE i \in 1..Len(text) :
                      text[i] = "," /\ \A j \in 1..(i - 1) : text[j] # "," IN
       <<SubSeq(text, 1, comma - 1)>> \o Split(SubSeq(text, comma + 1, Len(text)))

\* the elements of a sequence
Range(seq) == {seq[i] : i \in 1..Len(seq)}

\* _normalize_tags raises ValidationError
TagTooLong(tags_text) ==
  \E raw \in Range(Split(tags_text)) : Len(Strip(raw)) > MaxTagLength

\* the loop of _normalize_tags over the pieces: tags, in the order of the
\* first occurrence
RECURSIVE NormalizePieces(_, _)
NormalizePieces(pieces, tags) ==
  IF pieces = <<>> THEN tags
  ELSE LET name == Strip(Head(pieces)) IN
       NormalizePieces(Tail(pieces),
                       IF name = <<>> \/ name \in Range(tags) THEN tags
                       ELSE Append(tags, name))

normalize_tags(tags_text) == NormalizePieces(Split(tags_text), <<>>)

\* forms.CharField.clean: the value without the whitespace around it
CleanedTagsText(tags_text) == Strip(tags_text)

\* form.is_valid(): clean_tags_text
SpotFormIsValid(tags_text) == ~TagTooLong(CleanedTagsText(tags_text))

\* the primary key of the Tag row with the name, or 0
TagPk(rows, name) ==
  IF \E pk \in 1..Len(rows) : rows[pk] = name
  THEN CHOOSE pk \in 1..Len(rows) : rows[pk] = name ELSE 0

\* Tag.objects.create(name=name) for every name
CreateTags(rows, names) == rows \o names

\* Tag.objects.get_or_create(name=name) for every name: the Tag table after
\* the calls
RECURSIVE GetOrCreateTags(_, _)
GetOrCreateTags(rows, names) ==
  IF names = <<>> THEN rows
  ELSE GetOrCreateTags(IF TagPk(rows, Head(names)) # 0 THEN rows
                       ELSE Append(rows, Head(names)),
                       Tail(names))

\* the primary keys of the tag_objs: of the last row with the name
TagObjs(rows, names) ==
  {CHOOSE pk \in 1..Len(rows) :
     rows[pk] = name /\ \A other \in (pk + 1)..Len(rows) : rows[other] # name :
   name \in Range(names)}

\* SpotForm.save(commit=True, user=user) of a valid form, then the response;
\* pk is the instance of the form or NoPk, created_by the value of the
\* created_by field of SpotAdminForm (None for SpotForm, which has no such
\* field)
SpotFormSave(pk, user, created_by, tags_text) ==
  LET new == pk = NoPk
      key == IF new THEN Len(formSpots) + 1 ELSE pk
      tag_names == normalize_tags(CleanedTagsText(tags_text))
      rows == GetOrCreateTags(tagRows, tag_names)
      creator == IF user # None /\ new THEN user
                 ELSE IF created_by # None THEN created_by
                 ELSE formSpots[key].created_by
      instance == [created_by |-> creator, tags |-> TagObjs(rows, tag_names)] IN
  IF ~SpotFormIsValid(tags_text)
  THEN /\ formResult' = [saved |-> FALSE, valid |-> FALSE, pk |-> pk, new |-> new,
                         user |-> user, tags_text |-> tags_text]
       /\ UNCHANGED <<tagRows, formSpots>>
  ELSE /\ tagRows' = rows
       /\ formSpots' = IF new THEN Append(formSpots, instance)
                       ELSE [formSpots EXCEPT ![key] = instance]
       /\ formResult' = [saved |-> TRUE, valid |-> TRUE, pk |-> key, new |-> new,
                         user |-> user, tags_text |-> tags_text]

\* views.add_spot (and api_views.add_spot_api): form.save(user=request.user)
AddSpotWithTags(user, tags_text) ==
  /\ Len(formSpots) < MaxFormSpots
  /\ SpotFormSave(NoPk, user, None, tags_text)

\* SpotAdminCreateView: form.save() of a SpotAdminForm
SpotAdminCreate(created_by, tags_text) ==
  /\ Len(formSpots) < MaxFormSpots
  /\ SpotFormSave(NoPk, None, created_by, tags_text)

\* SpotAdminUpdateView: form.save() of a SpotAdminForm with an instance
SpotAdminUpdate(pk, created_by, tags_text) ==
  /\ pk \in 1..Len(formSpots)
  /\ SpotFormSave(pk, None, created_by, tags_text)

SpotFormRequest ==
  \/ \E user \in Users, tags_text \in TagTexts : AddSpotWithTags(user, tags_text)
  \/ \E user \in Users, tags_text \in TagTexts : SpotAdminCreate(user, tags_text)
  \/ \E pk \in 1..MaxFormSpots, user \in Users, tags_text \in TagTexts :
       SpotAdminUpdate(pk, user, tags_text)

InitSpotForm ==
  /\ tagRows = <<>>
  /\ formSpots = <<>>
  /\ formResult = NoFormResult

(***************************************************************************)
(* Relevance analysis: services/analytics.py                               *)
(***************************************************************************)
\* the latest time of the model
MaxClock == 2
\* seconds of one unit of clock
TickSeconds == 1800
\* scores are kept in units of 1 / ScoreScale, in which the terms of the
\* fallback score (seconds / 86400 / 10, seconds / 60 * 0.5) are whole numbers
ScoreScale == 864000
\* min_score - 0.001, in units of 1 / ScoreScale
DefaultScoreGap == 864
\* max(0.0, 3.0 - ...)
RecencyBonus == 3
\* min(duration_minutes, 60.0), in seconds
MaxDurationSeconds == 3600
\* 0.5 per minute of duration, in units of 1 / ScoreScale per second
DurationWeight == 7200
\* interaction.view_count * 2.0
ViewWeight == 2
\* thirty days before the start, in units of clock
LongAgo == 0 - 1440

\* a UserSpotInteraction row
Viewed(view_count, seconds, at) ==
  [exists |-> TRUE, view_count |-> view_count,
   total_view_duration |-> seconds, last_viewed_at |-> at]

\* the UserSpotInteraction table with the rows given as <<user, spot, row>>
HistoryOf(rows) ==
  [k \in Users \X SpotIds |->
     IF \E r \in rows : r[1] = k[1] /\ r[2] = k[2]
     THEN (CHOOSE r \in rows : r[1] = k[1] /\ r[2] = k[2])[3]
     ELSE NoRow]

\* the view histories the analysis starts from: none; one view; two spots
\* viewed, the older one longer; a row of an old visit without a counted
\* view (view_count has the default 0); rows of two users
Histories ==
  {HistoryOf({}),
   HistoryOf({<<"alice", 2, Viewed(1, 0, 0)>>}),
   HistoryOf({<<"alice", 1, Viewed(3, 720, 0)>>, <<"alice", 2, Viewed(1, 0, 0)>>}),
   HistoryOf({<<"alice", 1, Viewed(0, 0, LongAgo)>>}),
   HistoryOf({<<"alice", 1, Viewed(1, 60, 0)>>, <<"bob", 2, Viewed(2, 0, 0)>>,
              <<"bob", 1, Viewed(0, 0, LongAgo)>>})}

\* what _request_scores_from_openai returns: {} without an API key or after
\* a failure, else the scores of the answer (of any spot ids)
ApiOutcomes ==
  {<<>>, (1 :> 20 * ScoreScale), (1 :> 10 * ScoreScale) @@ (2 :> 30 * ScoreScale),
   (2 :> 0) @@ (9 :> 50 * ScoreScale)}

\* the lists of spots the analysis is asked to order
RECURSIVE SpotLists(_)
SpotLists(ids) ==
  {<<>>} \cup UNION {{<<spot>> \o rest : rest \in SpotLists(ids \ {spot})} : spot \in ids}

NoRelevanceResult ==
  [answered |-> FALSE, user |-> Anonymous, input |-> <<>>, api |-> <<>>,
   spots |-> <<>>, source |-> "none", scored_spot_ids |-> {}, scores |-> <<>>]

\* the score without the limit of sixty minutes
FallbackWithoutLimit(interaction) ==
  interaction.view_count * ViewWeight * ScoreScale
    + Max(0, RecencyBonus * ScoreScale
               - Max(0, (clock - interaction.last_viewed_at) * TickSeconds))
    + interaction.total_view_duration * DurationWeight

\* _compute_fallback_score, in units of 1 / ScoreScale
compute_fallback_score(interaction) ==
  LET duration_seconds == interaction.total_view_duration
      view_bonus == interaction.view_count * ViewWeight * ScoreScale
      recency_seconds == Max(0, (clock - interaction.last_viewed_at) * TickSeconds)
      recency_bonus == Max(0, RecencyBonus * ScoreScale - recency_seconds)
      duration_bonus ==
        (IF duration_seconds < MaxDurationSeconds THEN duration_seconds
         ELSE MaxDurationSeconds) * DurationWeight
  IN view_bonus + recency_bonus + duration_bonus

\* RecommendationResult
RecommendationResult(spots, source, scored_spot_ids, scores) ==
  [spots |-> spots, source |-> source, scored_spot_ids |-> scored_spot_ids,
   scores |-> scores]

\* sort_key(a) >= sort_key(b): (score or default_score, created_at)
SortKeyNotLower(a, b, scores, default_score) ==
  LET score_a == IF a \in DOMAIN scores THEN scores[a] ELSE default_score
      score_b == IF b \in DOMAIN scores THEN scores[b] ELSE default_score
  IN score_a > score_b \/ (score_a = score_b /\ created_at(a) >= created_at(b))

\* sorted(spots_list, key=sort_key, reverse=True): a stable sort
RECURSIVE SortedByKey(_, _, _)
SortedByKey(spots, scores, default_score) ==
  IF spots = <<>> THEN <<>>
  ELSE LET sorted == SortedByKey(SubSeq(spots, 1, Len(spots) - 1), scores, default_score)
           spot == spots[Len(spots)]
           before == Cardinality({i \in 1..Len(sorted) :
                        SortKeyNotLower(sorted[i], spot, scores, default_score)})
       IN SubSeq(sorted, 1, before) \o <<spot>> \o SubSeq(sorted, before + 1, Len(sorted))

\* min(scores.values())
MinScore(scores) ==
  CHOOSE low \in {scores[spot] : spot \in DOMAIN scores} :
    \A spot \in DOMAIN scores : low <= scores[spot]

\* the fallback is used although no score is positive
FallbackAlways(fallback_scores) == TRUE

\* any(score > 0 for score in fallback_scores.values())
AnyPositive(fallback_scores) ==
  \E spot \in DOMAIN fallback_scores : fallback_scores[spot] > 0

\* order_spots_by_relevance; api is what the external API returns when it is
\* asked
order_spots_by_relevance(spots, user, api) ==
  LET viewed == {spot \in Range(spots) :
                   IsAuthenticated(user) /\ history[<<user, spot>>].exists}
      fallback_scores ==
        [spot \in viewed |-> compute_fallback_score(history[<<user, spot>>])]
      source == IF DOMAIN api # {} THEN "api"
                ELSE IF AnyPositive(fallback_scores) THEN "fallback" ELSE "none"
      scores == IF source = "api" THEN api ELSE fallback_scores
      default_score == MinScore(scores) - DefaultScoreGap IN
  IF spots = <<>> \/ ~IsAuthenticated(user) \/ viewed = {} \/ source = "none"
  THEN RecommendationResult(spots, "none", {}, <<>>)
  ELSE RecommendationResult(SortedByKey(spots, scores, default_score), source,
                            DOMAIN scores, scores)

\* one call of order_spots_by_relevance
OrderSpots(user, spots, api) ==
  /\ relevanceResult' =
       [answered |-> TRUE, user |-> user, input |-> spots, api |-> api]
         @@ order_spots_by_relevance(spots, user, api)
  /\ UNCHANGED <<spotTable, scoreRows, history, clock>>

\* time passes
AdvanceClock ==
  /\ clock < MaxClock
  /\ clock' = clock + 1
  /\ relevanceResult' = NoRelevanceResult
  /\ UNCHANGED <<spotTable, scoreRows, history>>

RelevanceRequest ==
  \/ \E user \in Clients, spots \in SpotLists(1..Len(spotTable)), api \in ApiOutcomes :
       OrderSpots(user, spots, api)
  \/ AdvanceClock

\* a Spot table with one row of every primary key
SeededSpotTable ==
  [pk \in SpotIds |->
     [title |-> <<"m">>, description |-> <<>>, address |-> <<>>, tags |-> {}]]

InitAnalysis ==
  /\ history = HistoryOf({})
  /\ clock = 0
  /\ relevanceResult = NoRelevanceResult

(***************************************************************************)
(* Recommendation jobs: services/recommendation_jobs.py,                   *)
(* management/commands/run_recommendation_jobs.py                          *)
(***************************************************************************)
\* invocations of the command and calls of the services in one behaviour
MaxJobCalls == 2
DEFAULT_INTERVAL_HOURS == 1
\* interval_hours * 3600
SecondsPerHour == 3600
\* last_run_at is None
NoTime == 0 - 1
\* the values of interval_hours the settings form sends
IntervalHours == {1, 2}
\* a user id and a user name that no User row has
MissingUserId == 7
MissingUsername == "carol"

\* User.id
UserId(user) == IF user = "alice" THEN 1 ELSE 2

\* RecommendationJobSetting.objects.create(interval_hours=...): enabled has
\* the default True, last_run_at is null
NewJobSetting ==
  [exists |-> TRUE, interval_hours |-> DEFAULT_INTERVAL_HOURS, enabled |-> TRUE,
   last_run_at |-> NoTime]

get_or_create_job_setting == IF jobSetting.exists THEN jobSetting ELSE NewJobSetting

\* the comparison of is_job_due without the equality
ElapsedMoreThan(elapsed_seconds, interval_hours) ==
  elapsed_seconds > interval_hours * SecondsPerHour

\* elapsed.total_seconds() >= setting.interval_hours * 3600
ElapsedAtLeast(elapsed_seconds, interval_hours) ==
  elapsed_seconds >= interval_hours * SecondsPerHour

is_job_due(setting, at) ==
  IF ~setting.enabled THEN FALSE
  ELSE IF setting.last_run_at = NoTime THEN TRUE
  ELSE ElapsedAtLeast((at - setting.last_run_at) * TickSeconds, setting.interval_hours)

\* update_last_run without the assignment
KeepLastRun(setting, at) == setting

update_last_run(setting, at) == [setting EXCEPT !.last_run_at = at]

\* the options of the command; user_id 0 and username None: not given
Options(print_tool_schema, user_id, username, force, dry_run, all_users) ==
  [print_tool_schema |-> print_tool_schema, user_id |-> user_id,
   username |-> username, force |-> force, dry_run |-> dry_run,
   all_users |-> all_users]

CommandOptions ==
  {Options(FALSE, 0, None, FALSE, FALSE, FALSE),
   Options(FALSE, 0, None, FALSE, FALSE, TRUE),
   Options(FALSE, 0, None, TRUE, FALSE, FALSE),
   Options(FALSE, 0, None, FALSE, TRUE, FALSE),
   Options(FALSE, 0, None, TRUE, TRUE, FALSE),
   Options(TRUE, 0, None, FALSE, TRUE, FALSE),
   Options(TRUE, 0, None, TRUE, FALSE, FALSE),
   Options(FALSE, 1, None, TRUE, FALSE, FALSE),
   Options(FALSE, 1, None, FALSE, TRUE, FALSE),
   Options(FALSE, 0, "bob", FALSE, FALSE, FALSE),
   Options(FALSE, 1, "bob", TRUE, FALSE, FALSE),
   Options(FALSE, MissingUserId, None, TRUE, FALSE, FALSE)}

\* the answers of the external API during the jobs
JobApiOutcomes == {<<>>, (1 :> 20 * ScoreScale)}

NoCall ==
  [kind |-> "none", options |-> Options(FALSE, 0, None, FALSE, FALSE, FALSE),
   user |-> None, persist_log |-> FALSE, api |-> <<>>, answer |-> "none"]

\* the elements of a set of numbers, ascending
RECURSIVE Ascending(_)
Ascending(ids) ==
  IF ids = {} THEN <<>>
  ELSE LET low == CHOOSE s \in ids : \A t \in ids : s <= t IN
       <<low>> \o Ascending(ids \ {low})

\* a value of the tool call that is read with int() or float(): not given
\* (KeyError, or None), given and rejected with TypeError or ValueError,
\* given and rejected with OverflowError (int() of an infinite float, float()
\* of an integer beyond the floats), or a number
NotGiven == [given |-> FALSE, number |-> FALSE, overflow |-> FALSE, value |-> 0]
NotANumber == [given |-> TRUE, number |-> FALSE, overflow |-> FALSE, value |-> 0]
Overflowing == [given |-> TRUE, number |-> FALSE, overflow |-> TRUE, value |-> 0]
Number(value) == [given |-> TRUE, number |-> TRUE, overflow |-> FALSE, value |-> value]

\* an entry of scores: a dict with spot_id and score, or something else
Entry(spot_id, score) == [dict |-> TRUE, spot_id |-> spot_id, score |-> score]
NotADict == [dict |-> FALSE, spot_id |-> NotGiven, score |-> NotGiven]

\* the value of scores: a list, no value (absent or None), or another value,
\* which is empty ({} or "") or not
ScoresList(items) == [kind |-> "list", truthy |-> items # <<>>, items |-> items]
NoScores == [kind |-> "none", truthy |-> FALSE, items |-> <<>>]
OtherScores(truthy) == [kind |-> "other", truthy |-> truthy, items |-> <<>>]

Arguments(user_id, username, source, scores) ==
  [user_id |-> user_id, username |-> username, source |-> source, scores |-> scores]

\* _resolve_user: the user, or None
resolve_user(arguments) ==
  LET by_id == {user \in Users : /\ arguments.user_id.number
                                 /\ UserId(user) = arguments.user_id.value}
      by_name == {user \in Users : user = arguments.username} IN
  IF arguments.user_id.given /\ by_id # {} THEN CHOOSE user \in by_id : TRUE
  ELSE IF arguments.username \notin {None, ""} /\ by_name # {}
  THEN CHOOSE user \in by_name : TRUE
  ELSE None

\* the entry passes int(item['spot_id']) and float(item['score'])
WellFormed(item) == item.dict /\ item.spot_id.number /\ item.score.number

\* arguments.get('scores') or []
RawScores(arguments) ==
  IF arguments.scores.truthy THEN arguments.scores ELSE ScoresList(<<>>)

\* RecommendationJobLog.objects.create(...)
JobLog(user, source, triggered_by, scored_spot_ids) ==
  [user |-> user, source |-> source, triggered_by |-> triggered_by,
   scored_spot_ids |-> scored_spot_ids]

\* int(item['spot_id']) or float(item['score']) raises an error that the
\* loop does not catch
Overflows(item) ==
  /\ item.dict
  /\ \/ item.spot_id.overflow
     \/ item.spot_id.number /\ item.score.overflow

\* store_recommendation_scores: the error raised, and the table with the new
\* log
store_recommendation_scores(logs, arguments, triggered_by) ==
  LET user == resolve_user(arguments)
      raw_scores == RawScores(arguments)
      entries == SelectSeq(raw_scores.items, WellFormed)
      scored_ids == [i \in 1..Len(entries) |-> entries[i].spot_id.value]
      source == IF arguments.source \in {None, ""} THEN "api" ELSE arguments.source IN
  IF arguments.user_id.overflow
  THEN [raised |-> "OverflowError", logs |-> logs]
  ELSE IF user = None \/ raw_scores.kind # "list"
  THEN [raised |-> "ValueError", logs |-> logs]
  ELSE IF \E i \in 1..Len(raw_scores.items) : Overflows(raw_scores.items[i])
  THEN [raised |-> "OverflowError", logs |-> logs]
  ELSE [raised |-> "none",
        logs |-> Append(logs, JobLog(user, source, triggered_by, scored_ids))]

\* build_tool_call_from_result: the arguments of the tool call
build_tool_call_from_result(user, result) ==
  LET ids == Ascending(result.scored_spot_ids) IN
  Arguments(Number(UserId(user)), user, result.source,
            ScoresList([i \in 1..Len(ids) |->
                          Entry(Number(ids[i]), Number(result.scores[ids[i]]))]))

\* the spots of the interactions of the user
ViewedSpotsOf(user) ==
  Ascending({spot \in 1..Len(spotTable) : history[<<user, spot>>].exists})

\* run_recommendation_for_user: the log table after the call
run_recommendation_for_user(logs, user, triggered_by, persist_log, api) ==
  LET spots == ViewedSpotsOf(user)
      result == order_spots_by_relevance(spots, user, api) IN
  IF spots = <<>> \/ ~persist_log THEN logs
  ELSE store_recommendation_scores(logs, build_tool_call_from_result(user, result),
                                   triggered_by).logs

\* the transaction of _compute_and_store_user_scores on the given tables
ReplaceScoresIn(rows, user, scores, source) ==
  LET Others_(row) == row.user # user IN
  SelectSeq(rows, Others_)
    \o ScoreRowsOf(user, scores, source, DOMAIN scores \cap (1..Len(spotTable)))

\* _compute_and_store_user_scores: the score and log tables after the call
compute_and_store_user_scores(tables, user, triggered_by, api) ==
  LET all_spots == Ascending(1..Len(spotTable))
      result == order_spots_by_relevance(all_spots, user, api) IN
  IF ViewedSpotsOf(user) = <<>> \/ DOMAIN result.scores = {} THEN tables
  ELSE [scores |-> ReplaceScoresIn(tables.scores, user, result.scores, result.source),
        logs |-> Append(tables.logs,
                        JobLog(user, result.source, triggered_by,
                               Ascending(result.scored_spot_ids)))]

\* the loop of compute_and_store_all_user_scores over the users
RECURSIVE ComputeForUsers(_, _, _, _)
ComputeForUsers(tables, users, triggered_by, api) ==
  IF users = <<>> THEN tables
  ELSE ComputeForUsers(compute_and_store_user_scores(tables, Head(users), triggered_by, api),
                       Tail(users), triggered_by, api)

\* User.objects.filter(spot_interactions__isnull=False).distinct()
users_with_interactions ==
  LET ids == {UserId(user) : user \in {u \in Users : ViewedSpotsOf(u) # <<>>}}
      sorted == Ascending(ids) IN
  [i \in 1..Len(sorted) |-> CHOOSE user \in Users : UserId(user) = sorted[i]]

compute_and_store_all_user_scores(triggered_by, api) ==
  LET tables == [scores |-> scoreRows, logs |-> jobLogs] IN
  IF spotTable = <<>> THEN tables
  ELSE ComputeForUsers(tables, users_with_interactions, triggered_by, api)

\* Command._resolve_users with a user filter: the first match, or no user
resolve_users(options) ==
  LET found == {user \in Users :
                  /\ options.user_id # 0 => UserId(user) = options.user_id
                  /\ options.username # None => user = options.username} IN
  IF found = {} THEN <<>>
  ELSE <<CHOOSE user \in found : \A other \in found : UserId(user) <= UserId(other)>>

\* the loop of handle over the users
RECURSIVE RunForUsers(_, _, _, _, _)
RunForUsers(logs, users, triggered_by, persist_log, api) ==
  IF users = <<>> THEN logs
  ELSE RunForUsers(run_recommendation_for_user(logs, Head(users), triggered_by,
                                               persist_log, api),
                   Tail(users), triggered_by, persist_log, api)

\* the job runs although it is not due
DueAlways(setting, at) == TRUE

\* the schedule check of handle: enabled and due
ScheduleAllows(setting, at) == setting.enabled /\ is_job_due(setting, at)

\* persist_log=not dry_run
PersistsLog(options) == ~options.dry_run

\* an invocation of the command and what it answered: the schema only, the
\* skip warning, the run over all users, the run over the user of the filter,
\* or that the filter found no user
Called(options, api, answer) ==
  [NoCall EXCEPT !.kind = "command", !.options = options, !.api = api,
                 !.answer = answer]

\* Command.handle: one invocation of run_recommendation_jobs
RunRecommendationJobs(options, api) ==
  LET setting == get_or_create_job_setting
      filtered == options.user_id # 0 \/ options.username # None
      stored == compute_and_store_all_user_scores("auto", api) IN
  /\ jobCalls < MaxJobCalls
  /\ jobCalls' = jobCalls + 1
  /\ IF /\ options.print_tool_schema
        /\ ~filtered /\ ~options.force /\ ~options.all_users
     THEN /\ lastCall' = Called(options, api, "schema")
          /\ UNCHANGED <<jobSetting, jobLogs, scoreRows, lastUpdate>>
     ELSE IF ~filtered
     THEN IF ~options.force /\ ~ScheduleAllows(setting, clock)
          THEN /\ lastCall' = Called(options, api, "skipped")
               /\ jobSetting' = setting
               /\ UNCHANGED <<jobLogs, scoreRows, lastUpdate>>
          ELSE /\ lastCall' = Called(options, api, "all users")
               /\ scoreRows' = stored.scores
               /\ jobLogs' = stored.logs
               /\ jobSetting' = update_last_run(setting, clock)
               /\ lastUpdate' = clock
     ELSE /\ lastCall' = Called(options, api, IF resolve_users(options) = <<>>
                                               THEN "no user" ELSE "one user")
          /\ jobSetting' = setting
          /\ jobLogs' = RunForUsers(jobLogs, resolve_users(options), "cli",
                                    PersistsLog(options), api)
          /\ UNCHANGED <<scoreRows, lastUpdate>>
  /\ UNCHANGED <<spotTable, history, clock>>

\* a call of run_recommendation_for_user: by the admin action
\* (persist_log=True) or by another caller of the service
RunForUser(user, persist_log, api) ==
  /\ jobCalls < MaxJobCalls
  /\ jobCalls' = jobCalls + 1
  /\ lastCall' = [NoCall EXCEPT !.kind = "service", !.user = user,
                                !.persist_log = persist_log, !.api = api,
                                !.answer = IF ViewedSpotsOf(user) = <<>>
                                           THEN "none" ELSE "result"]
  /\ jobLogs' = run_recommendation_for_user(jobLogs, user, "admin", persist_log, api)
  /\ UNCHANGED <<jobSetting, scoreRows, lastUpdate, spotTable, history, clock>>

\* RecommendationAdminView.post, action update_setting
UpdateSetting(interval_hours, enabled) ==
  /\ jobSetting' = [get_or_create_job_setting EXCEPT
                      !.interval_hours = interval_hours, !.enabled = enabled]
  /\ UNCHANGED <<jobCalls, lastCall, jobLogs, scoreRows, lastUpdate, spotTable,
                 history, clock>>

\* time passes between the invocations
JobClock ==
  /\ clock < MaxClock
  /\ clock' = clock + 1
  /\ UNCHANGED <<jobCalls, lastCall, jobSetting, jobLogs, scoreRows, lastUpdate,
                 spotTable, history>>

JobRequest ==
  \/ \E options \in CommandOptions, api \in JobApiOutcomes :
       RunRecommendationJobs(options, api)
  \/ \E user \in Users, persist_log \in BOOLEAN, api \in JobApiOutcomes :
       RunForUser(user, persist_log, api)
  \/ \E interval_hours \in IntervalHours, enabled \in BOOLEAN :
       UpdateSetting(interval_hours, enabled)
  \/ JobClock

\* the arguments of the tool calls
ToolCalls ==
  {Arguments(Number(1), None, "api", ScoresList(<<Entry(Number(1), Number(42))>>)),
   Arguments(NotGiven, "bob", None,
             ScoresList(<<Entry(Number(2), Number(5)), NotADict,
                          Entry(NotANumber, Number(3)), Entry(Number(1), NotGiven),
                          Entry(Number(9), NotANumber), Entry(Number(2), Number(7)),
                          Entry(Number(1), Number(0))>>)),
   Arguments(Number(MissingUserId), "alice", "manual",
             ScoresList(<<Entry(Number(2), Number(1)), Entry(Number(1), Number(2))>>)),
   Arguments(NotANumber, "bob", "", ScoresList(<<>>)),
   Arguments(Number(1), "bob", "api", ScoresList(<<NotADict>>)),
   Arguments(Number(MissingUserId), MissingUsername, "api",
             ScoresList(<<Entry(Number(1), Number(1))>>)),
   Arguments(NotGiven, None, "api", ScoresList(<<Entry(Number(1), Number(1))>>)),
   Arguments(NotGiven, "", "api", NoScores),
   Arguments(Number(1), None, "api", OtherScores(TRUE)),
   Arguments(Number(2), None, "api", OtherScores(FALSE)),
   Arguments(Number(1), None, "fallback", NoScores),
   Arguments(Overflowing, "alice", "api", ScoresList(<<>>)),
   Arguments(Number(1), None, "api",
             ScoresList(<<Entry(Number(1), Number(1)), Entry(Overflowing, Number(1))>>)),
   Arguments(Number(2), None, "api",
             ScoresList(<<Entry(NotGiven, Overflowing), Entry(Number(2), Overflowing)>>)),
   Arguments(Number(2), None, "api",
             ScoresList(<<Entry(NotANumber, Overflowing), Entry(Number(2), Number(3))>>))}

\* a tool call and the error it raised
ToolCalled(arguments, raised) ==
  [kind |-> "tool", arguments |-> arguments, raised |-> raised]

\* a call of store_recommendation_scores with the arguments of a tool call
StoreRecommendationScores(arguments) ==
  LET stored == store_recommendation_scores(jobLogs, arguments, "api") IN
  /\ jobCalls < MaxJobCalls
  /\ jobCalls' = jobCalls + 1
  /\ lastCall' = ToolCalled(arguments, stored.raised)
  /\ jobLogs' = stored.logs
  /\ UNCHANGED <<jobSetting, scoreRows, lastUpdate, spotTable, history, clock>>

ToolRequest == \E arguments \in ToolCalls : StoreRecommendationScores(arguments)

InitJobTables ==
  /\ jobSetting = NoRow
  /\ jobLogs = <<>>
  /\ lastCall = NoCall
  /\ lastUpdate = NoTime
  /\ jobCalls = 0

(***************************************************************************)
(* The fallback score of one interaction: services/analytics.py            *)
(***************************************************************************)
\* the highest view_count of the rows scored
MaxViewCount == 2

\* total_view_duration of the rows scored, in seconds: none, a minute, just
\* below, at and above sixty minutes
ViewSeconds == {0, 60, 3540, 3600, 3660, 7200}

\* last_viewed_at of the rows scored, in units of clock: at the start, fifteen
\* days before, and one unit after, at and before thirty days before
LastViews == {0, 0 - 720, LongAgo + 1, LongAgo, LongAgo - 1}

\* the rows scored: one row of one user
ScoredInteractions ==
  {Viewed(view_count, seconds, at) :
     view_count \in 0..MaxViewCount, seconds \in ViewSeconds, at \in LastViews}

NoFallbackResult ==
  [computed |-> FALSE, interaction |-> NoRow, at |-> 0, score |-> 0]

\* a call of _compute_fallback_score with the row of the user and the spot
ComputeFallbackScore(user, spot) ==
  /\ history[<<user, spot>>].exists
  /\ fallbackResult' =
       [computed |-> TRUE, interaction |-> history[<<user, spot>>], at |-> clock,
        score |-> compute_fallback_score(history[<<user, spot>>])]
  /\ UNCHANGED <<spotTable, scoreRows, history, clock, relevanceResult>>

\* time passes between the calls
FallbackClock ==
  /\ clock < MaxClock
  /\ clock' = clock + 1
  /\ fallbackResult' = NoFallbackResult
  /\ UNCHANGED <<spotTable, scoreRows, history, relevanceResult>>

FallbackRequest ==
  \/ \E user \in Users, spot \in SpotIds : ComputeFallbackScore(user, spot)
  \/ FallbackClock

(***************************************************************************)
(* The crawler of the flow chart generator: scripts/flow/generate_flow.py  *)
(***************************************************************************)
\* the largest --max-pages
MaxPages == 3

\* (scheme, netloc) of the base URL and of another site
Origins == {"site", "other"}

\* the paths of the URLs, as the characters of p.path
PRoot == <<"/">>
PA == <<"/", "a">>
PB == <<"/", "b">>
PX == <<"/", "x">>
PAX == <<"/", "a", "/", "x">>
PEmpty == <<>>

\* a URL without its fragment: urlunparse(parts._replace(fragment=""))
Url(origin, path) == [origin |-> origin, path |-> path]

\* _normalize_url returns None
NoUrl == Url(None, <<>>)

\* the href of an anchor: a link with or without scheme and netloc, with or
\* without a fragment; blanks only; "#..."; "mailto:", "tel:" or "javascript:"
Link(origin, path, fragment) ==
  [kind |-> "link", origin |-> origin, path |-> path, fragment |-> fragment]
Blank == [kind |-> "blank", origin |-> None, path |-> <<>>, fragment |-> ""]
FragmentOnly == [kind |-> "fragment", origin |-> None, path |-> <<>>, fragment |-> "top"]
Mailto == [kind |-> "mailto", origin |-> None, path |-> <<>>, fragment |-> ""]

\* a compiled --include / --exclude pattern: none, or a text that is
\* searched in the path, from its start when the pattern begins with ^
NoPattern == [given |-> FALSE, anchored |-> FALSE, text |-> <<>>]
Pattern(anchored, text) == [given |-> TRUE, anchored |-> anchored, text |-> text]

ExcludePatterns ==
  {NoPattern, Pattern(TRUE, PX), Pattern(FALSE, PX), Pattern(TRUE, PRoot)}

IncludePatterns == {NoPattern, Pattern(FALSE, <<"a">>)}

\* what session.get(url) gives: an HTML page with its anchors, a status of
\* 400 or more, another content type, or an exception
Html(links) == [kind |-> "html", links |-> links]
Failed(kind) == [kind |-> kind, links |-> <<>>]

\* the sites crawled: pages that link to each other in cycles, to the other
\* site and to themselves; a site with failing pages; a chain of pages
Sites == {"cycles", "failures", "chain"}

Response(site, url) ==
  IF url.origin # "site" THEN Failed("exception")
  ELSE IF site = "cycles" THEN
    IF url.path = PRoot
    THEN Html(<<Link(None, PA, ""), Link("other", PRoot, ""), FragmentOnly,
                Link(None, PX, ""), Link("site", PB, ""), Link(None, PA, "top")>>)
    ELSE IF url.path = PA
    THEN Html(<<Link(None, PRoot, ""), Blank, Link(None, PAX, ""), Link(None, PB, "")>>)
    ELSE IF url.path = PB
    THEN Html(<<Mailto, Link("site", PEmpty, ""), Link(None, PA, "")>>)
    ELSE IF url.path = PX THEN Html(<<Link(None, PA, ""), Link(None, PX, "")>>)
    ELSE IF url.path = PAX THEN Html(<<Link(None, PRoot, "")>>)
    ELSE Html(<<Link(None, PB, "")>>)
  ELSE IF site = "failures" THEN
    IF url.path = PRoot THEN Html(<<Link(None, PB, ""), Link(None, PA, ""), Link(None, PAX, "")>>)
    ELSE IF url.path = PA THEN Failed("error")
    ELSE IF url.path = PB THEN Failed("other")
    ELSE IF url.path = PAX THEN Failed("exception")
    ELSE Html(<<Link(None, PRoot, "")>>)
  ELSE
    IF url.path = PRoot THEN Html(<<Link(None, PA, "")>>)
    ELSE IF url.path = PA THEN Html(<<Link(None, PB, "")>>)
    ELSE IF url.path = PB THEN Html(<<Link(None, PAX, "")>>)
    ELSE IF url.path = PAX THEN Html(<<Link(None, PX, "")>>)
    ELSE IF url.path = PX THEN Html(<<Link(None, PEmpty, "")>>)
    ELSE Html(<<Link(None, PRoot, "")>>)

\* --base-url
BaseUrls == {Url("site", PRoot), Url("site", PA), Url("site", PX)}

\* the arguments of crawl
CrawlInputs ==
  [site : Sites, base_url : BaseUrls, max_pages : 0..MaxPages,
   include_pattern : IncludePatterns, exclude_pattern : ExcludePatterns]

\* _normalize_url: the URL of the href on the page, or None
normalize_url(base, href) ==
  IF href.kind \in {"fragment", "mailto"} THEN NoUrl
  ELSE IF href.kind = "blank" THEN base
  ELSE Url(IF href.origin = None THEN base.origin ELSE href.origin, href.path)

StartsWith(text, prefix) ==
  Len(prefix) <= Len(text) /\ SubSeq(text, 1, Len(prefix)) = prefix

\* pattern.search(path)
Search(pattern, path) ==
  IF pattern.anchored THEN StartsWith(path, pattern.text)
  ELSE Contains(path, pattern.text)

\* the test of a link without the exclude pattern
FollowsEveryPath(nurl) ==
  /\ nurl # NoUrl
  /\ nurl.origin = crawlInput.base_url.origin

\* the link is followed: it has a URL of the origin of the base URL whose
\* path (p.path or "/") passes the exclude and the include pattern
Follows(nurl) ==
  LET path == IF nurl.path = <<>> THEN PRoot ELSE nurl.path IN
  /\ nurl # NoUrl
  /\ nurl.origin = crawlInput.base_url.origin
  /\ ~(crawlInput.exclude_pattern.given /\ Search(crawlInput.exclude_pattern, path))
  /\ ~(crawlInput.include_pattern.given /\ ~Search(crawlInput.include_pattern, path))

\* to_visit.popleft()
PopLeft(queue) == [url |-> Head(queue), rest |-> Tail(queue)]

InQueue(queue, url) == \E i \in 1..Len(queue) : queue[i] = url

\* for href, text in parser.links: the queue, the edges and the URLs in
\* the order of their discovery after the links of the page
RECURSIVE FollowLinks(_, _, _, _)
FollowLinks(state, links, url, visited_urls) ==
  IF links = <<>> THEN state
  ELSE LET nurl == normalize_url(url, Head(links))
           enqueue == nurl \notin visited_urls /\ ~InQueue(state.to_visit, nurl)
           next ==
             IF ~Follows(nurl) THEN state
             ELSE [to_visit |-> IF enqueue THEN Append(state.to_visit, nurl)
                                ELSE state.to_visit,
                   edges |-> Append(state.edges, <<url, nurl>>),
                   discovered |-> IF enqueue THEN Append(state.discovered, nurl)
                                  ELSE state.discovered] IN
       FollowLinks(next, Tail(links), url, visited_urls)

\* while to_visit and len(visited) < max_pages
Continues == to_visit # <<>> /\ Cardinality(visited) < crawlInput.max_pages

\* one pass of the loop of crawl
CrawlVisit ==
  LET popped == PopLeft(to_visit)
      url == popped.url
      resp == Response(crawlInput.site, url)
      followed == FollowLinks([to_visit |-> popped.rest, edges |-> edges,
                               discovered |-> discovered],
                              resp.links, url, visited \cup {url}) IN
  /\ crawlPc = "loop"
  /\ Continues
  /\ IF url \in visited
     THEN /\ to_visit' = popped.rest
          /\ UNCHANGED <<visited, fetched, titles, edges, discovered>>
     ELSE /\ visited' = visited \cup {url}
          /\ fetched' = Append(fetched, url)
          /\ IF resp.kind # "html"
             THEN /\ to_visit' = popped.rest
                  /\ UNCHANGED <<titles, edges, discovered>>
             ELSE /\ titles' = titles \cup {url}
                  /\ to_visit' = followed.to_visit
                  /\ edges' = followed.edges
                  /\ discovered' = followed.discovered
  /\ UNCHANGED <<crawlInput, crawlPc>>

\* return titles, edges
CrawlReturn ==
  /\ crawlPc = "loop"
  /\ ~Continues
  /\ crawlPc' = "done"
  /\ UNCHANGED <<crawlInput, to_visit, visited, fetched, titles, edges, discovered>>

CrawlStep == CrawlVisit \/ CrawlReturn

\* no crawl is running
InitNoCrawl ==
  /\ crawlInput = [site |-> "chain", base_url |-> Url("site", PRoot), max_pages |-> 0,
                   include_pattern |-> NoPattern, exclude_pattern |-> NoPattern]
  /\ crawlPc = "idle"
  /\ to_visit = <<>>
  /\ visited = {}
  /\ fetched = <<>>
  /\ titles = {}
  /\ edges = <<>>
  /\ discovered = <<>>

InitServices ==
  /\ InitHomepage
  /\ InitSpotForm
  /\ InitAnalysis
  /\ InitJobTables
  /\ fallbackResult = NoFallbackResult
  /\ InitNoCrawl

InitInteraction ==
  /\ interactions = [k \in Clients \X Spots |-> NoRow]
  /\ spotViews = [s \in Spots |-> <<>>]
  /\ reqs = [r \in Slots |-> IdleReq]
  /\ lastDone = NoneDone
  /\ started = 0
  /\ viewCalls = [k \in Clients \X Spots |-> 0]
  /\ durReported = [k \in Clients \X Spots |-> 0]

InitReview ==
  /\ reviews = <<>>
  /\ reviewReqs = [r \in Slots |-> IdleReview]

\* the tables of the views before the first request
InitWeb ==
  /\ now = 0
  /\ InitInteraction
  /\ InitReview
  /\ InitFavorite
  /\ ranked = NoRanking
  /\ InitSpotsApi
  /\ InitAdmin

\* the database before the first request
Init == InitWeb /\ InitServices

InteractionRequest ==
  \/ \E r \in Slots, kind \in {"spot_detail", "spot_detail_data"},
        method \in Methods, user \in Viewers, spot \in Spots :
       SpotDetail(r, kind, method, user, spot)
  \/ \E r \in Slots, method \in Methods, user \in Viewers, spot \in Spots,
        raw \in RawDurations : RecordSpotView(r, method, user, spot, raw)
  \/ \E r \in Slots, method \in Methods, user \in Viewers, spot \in Spots,
        raw \in RawDurations : RecordViewApi(r, method, user, spot, raw)
  \/ \E r \in Slots : GetInteraction(r)
  \/ \E r \in Slots : CreateInteraction(r)
  \/ \E r \in Slots : UpdateInteraction(r)

\* the view-logging endpoints
NextInteraction ==
  /\ InteractionRequest
  /\ UNCHANGED <<reviewVars, favoriteVars, ranked, spotsApiVars, adminVars>>
  /\ UNCHANGED serviceVars

SpecInteraction == Init /\ [][NextInteraction]_vars

\* the review endpoints
NextReview ==
  /\ ReviewRequest
  /\ UNCHANGED <<now, interactions, spotViews, reqs, viewCalls, durReported>>
  /\ UNCHANGED <<favoriteVars, ranked, spotsApiVars, adminVars>>
  /\ UNCHANGED serviceVars

SpecReview == Init /\ [][NextReview]_vars

\* the favorite endpoints
NextFavorite ==
  /\ FavoriteRequest
  /\ UNCHANGED <<now, interactionVars, reviewVars, ranked, spotsApiVars, adminVars>>
  /\ UNCHANGED serviceVars

SpecFavorite == Init /\ [][NextFavorite]_vars

\* the database of the ranking model on day 0: every seeded spot viewed once
InitRanking ==
  /\ now = 0
  /\ spotViews = [s \in RankingSpots |-> IF s \in SeededSpots THEN <<0>> ELSE <<>>]
  /\ interactions = [k \in Clients \X Spots |-> NoRow]
  /\ reqs = [r \in Slots |-> IdleReq]
  /\ lastDone = NoneDone
  /\ started = 0
  /\ viewCalls = [k \in Clients \X Spots |-> 0]
  /\ durReported = [k \in Clients \X Spots |-> 0]
  /\ InitReview
  /\ InitFavorite
  /\ ranked = NoRanking
  /\ InitSpotsApi
  /\ InitAdmin
  /\ InitServices

\* the ranking endpoints, the views they count and the passing of time
NextRanking ==
  /\ RankingRequest
  /\ UNCHANGED <<interactions, reqs, lastDone, viewCalls, durReported>>
  /\ UNCHANGED <<reviewVars, favoriteVars, spotsApiVars, adminVars>>
  /\ UNCHANGED serviceVars

SpecRanking == InitRanking /\ [][NextRanking]_vars

\* the spot list and the creation of spots
NextSpotsApi ==
  /\ SpotsApiRequest
  /\ UNCHANGED <<now, interactionVars, reviewVars, favoriteVars, ranked, adminVars>>
  /\ UNCHANGED serviceVars

SpecSpotsApi == Init /\ [][NextSpotsApi]_vars

\* every view of the custom admin
NextHomepage == HomepageRequest /\ UNCHANGED <<webVars, spotFormVars, analysisVars, jobVars, fallbackVars, crawlVars>>

SpecHomepage == Init /\ [][NextHomepage]_vars

NextSpotForm == SpotFormRequest /\ UNCHANGED <<webVars, homepageVars, analysisVars, jobVars, fallbackVars, crawlVars>>

SpecSpotForm == Init /\ [][NextSpotForm]_vars

\* the analysis starts from a Spot table and a view history
InitRelevance ==
  /\ InitWeb
  /\ InitSpotForm
  /\ spotTable = SeededSpotTable
  /\ scoreRows = <<>>
  /\ homeResult = NoHomeResult
  /\ history \in Histories
  /\ clock = 0
  /\ relevanceResult = NoRelevanceResult
  /\ InitJobTables
  /\ fallbackResult = NoFallbackResult
  /\ InitNoCrawl

NextRelevance == RelevanceRequest /\ UNCHANGED <<webVars, spotFormVars, homeResult, jobVars, fallbackVars, crawlVars>>

SpecRelevance == InitRelevance /\ [][NextRelevance]_vars

NextJobs ==
  /\ JobRequest
  /\ UNCHANGED <<webVars, spotFormVars, homeResult, relevanceResult, fallbackVars, crawlVars>>

SpecJobs == InitRelevance /\ [][NextJobs]_vars

NextToolCall ==
  /\ ToolRequest
  /\ UNCHANGED <<webVars, spotFormVars, homeResult, relevanceResult, fallbackVars, crawlVars>>

SpecToolCall == InitRelevance /\ [][NextToolCall]_vars

InitFallback ==
  /\ InitWeb
  /\ InitSpotForm
  /\ InitJobTables
  /\ spotTable = SeededSpotTable
  /\ scoreRows = <<>>
  /\ homeResult = NoHomeResult
  /\ relevanceResult = NoRelevanceResult
  /\ clock = 0
  /\ \E interaction \in ScoredInteractions : history = HistoryOf({<<"alice", 1, interaction>>})
  /\ fallbackResult = NoFallbackResult
  /\ InitNoCrawl

NextFallback ==
  /\ FallbackRequest
  /\ UNCHANGED <<webVars, spotFormVars, homeResult, jobVars, crawlVars>>

SpecFallbackScore == InitFallback /\ [][NextFallback]_vars

\* crawl before the first pass of its loop
InitCrawl ==
  /\ InitWeb
  /\ InitHomepage
  /\ InitSpotForm
  /\ InitAnalysis
  /\ InitJobTables
  /\ fallbackResult = NoFallbackResult
  /\ crawlInput \in CrawlInputs
  /\ crawlPc = "loop"
  /\ to_visit = <<crawlInput.base_url>>
  /\ visited = {}
  /\ fetched = <<>>
  /\ titles = {}
  /\ edges = <<>>
  /\ discovered = <<crawlInput.base_url>>

NextCrawl ==
  /\ CrawlStep
  /\ UNCHANGED <<webVars, homepageVars, spotFormVars, analysisVars, jobVars, fallbackVars>>

SpecCrawl == InitCrawl /\ [][NextCrawl]_vars

\* the interpreter keeps running the loop
SpecCrawlFair == SpecCrawl /\ WF_vars(NextCrawl)

NextAdminAccess ==
  /\ AdminAccessRequest
  /\ UNCHANGED <<now, interactionVars, reviewVars, favoriteVars, ranked, spotsApiVars>>
  /\ UNCHANGED serviceVars

SpecAdminAccess == Init /\ [][NextAdminAccess]_vars

\* the user views of the custom admin
NextUserAdmin ==
  /\ UserAdminRequest
  /\ UNCHANGED <<now, interactionVars, reviewVars, favoriteVars, ranked, spotsApiVars>>
  /\ UNCHANGED serviceVars

SpecUserAdmin == Init /\ [][NextUserAdmin]_vars

(***************************************************************************)
(* Properties of the view-logging endpoints                                *)
(***************************************************************************)
InFlight(k) ==
  {r \in Slots : reqs[r].pc # "idle" /\ Key(reqs[r].user, reqs[r].spot) = k}

\* no request for the pair is between its first and its last statement
Quiescent(k) == InFlight(k) = {}

ViewCountOf(k) == IF interactions[k].exists THEN interactions[k].view_count ELSE 0

DurationOf(k) ==
  IF interactions[k].exists THEN interactions[k].total_view_duration ELSE 0

RECURSIVE SumDurations(_)
SumDurations(rs) ==
  IF rs = {} THEN 0
  ELSE LET r == CHOOSE x \in rs : TRUE
       IN reqs[r].duration + SumDurations(rs \ {r})

\* the durations of the update_view_duration calls that have not yet reached
\* the table
PendingDuration(k) ==
  SumDurations({r \in InFlight(k) : reqs[r].kind = "update_view_duration"})

\* C5: after n views of a spot by a user (all of them finished), the pair's
\* view_count is n.
C5_ViewCountIsNumberOfViews ==
  \A k \in Users \X Spots :
    (Quiescent(k) /\ viewCalls[k] > 0) =>
      (interactions[k].exists /\ interactions[k].view_count = viewCalls[k])

\* What the code does keep: no increment is lost, and the count is off by
\* one only when update_view_duration created the row.
ViewCountAtMostOneAhead ==
  \A k \in Users \X Spots :
    Quiescent(k) =>
      /\ ViewCountOf(k) >= viewCalls[k]
      /\ ViewCountOf(k) <= viewCalls[k] + 1

C6_DurationIsSumOfReports ==
  \A k \in Users \X Spots :
    /\ DurationOf(k) + PendingDuration(k) = durReported[k]
    /\ Quiescent(k) => DurationOf(k) = durReported[k]

C6_ViewCountKept ==
  \A r \in Slots :
    (reqs[r].kind = "update_view_duration" /\ reqs'[r] # reqs[r]) =>
      \A k \in Clients \X Spots :
        interactions[k].exists =>
          /\ interactions'[k].exists
          /\ interactions'[k].view_count = interactions[k].view_count

\* C6: update_view_duration adds exactly max(duration, 0) to the pair's
\* total_view_duration (so the total is always the sum of the positive
\* durations reported, less those of calls still in flight) and no step of
\* it changes the view_count of a row that exists.
C6_UpdateViewDuration ==
  [](C6_DurationIsSumOfReports) /\ [][C6_ViewCountKept]_vars

\* two reports have been added up in one row, after a report that was not
\* positive
C6_Witness ==
  \E k \in Users \X Spots :
    /\ Quiescent(k)
    /\ interactions[k].exists
    /\ interactions[k].total_view_duration = 4
    /\ durReported[k] = 4
    /\ started = 3

C7_NoAnonymousRow ==
  /\ \A s \in Spots : ~interactions[Key(Anonymous, s)].exists
  /\ \A r \in Slots : reqs[r].pc # "idle" => reqs[r].user # Anonymous
  /\ lastDone.user = Anonymous =>
       /\ lastDone.kind \notin {"log_spot_view", "update_view_duration"}
       /\ lastDone.kind = "record_spot_view" => lastDone.response = "redirect_login"
       /\ lastDone.kind = "record_view_api" => lastDone.response \in {"401", "405"}

SpotViewAdded ==
  \E s \in Spots :
    /\ Len(spotViews'[s]) = Len(spotViews[s]) + 1
    /\ \A t \in Spots \ {s} : spotViews'[t] = spotViews[t]

\* the step of a request that is answered to an anonymous client
C7_AnonymousStep ==
  (started' # started /\ lastDone'.user = Anonymous /\ reqs' = reqs) =>
    /\ interactions' = interactions
    /\ \/ spotViews' = spotViews
       \/ /\ lastDone'.kind \in {"spot_detail", "spot_detail_data"}
          /\ SpotViewAdded
    /\ (lastDone'.kind = "record_view_api" /\ lastDone'.response # "405")
         => lastDone'.response = "401"

C2_OneReviewPerSpotAndUser ==
  \A i, j \in 1..Len(reviews) :
    (reviews[i].spot = reviews[j].spot /\ reviews[i].user = reviews[j].user)
      => i = j

\* two requests of one user for one spot both passed the check for an
\* existing review; the INSERT of the second was refused
C2_Witness ==
  /\ Len(reviews) = 1
  /\ lastDone.response = "500"
  /\ lastDone.user = reviews[1].user

(***************************************************************************)
(* Properties of the favorite endpoints                                    *)
(***************************************************************************)
C8_ToggleFlips ==
  lastToggle' # lastToggle =>
    LET user == lastToggle'.user
        spot == lastToggle'.spot IN
    /\ IsAuthenticated(user)
    /\ is_favorite_spot(profiles', favorites', spot, user)
         = ~is_favorite_spot(profiles, favorites, spot, user)
    /\ lastToggle'.result = is_favorite_spot(profiles', favorites', spot, user)
    /\ favorites' \ {<<user, spot>>} = favorites \ {<<user, spot>>}
    /\ (lastToggle.called /\ lastToggle.user = user /\ lastToggle.spot = spot)
         => favorites' = lastToggle.before

\* C8: a call of toggle_favorite_spot by an authenticated user flips the
\* membership of the spot in that user's favorites, returns True exactly when
\* the spot is a favorite after the call, and leaves every other (user, spot)
\* pair as it was; the second of two successive toggles of the same pair
\* restores the favorites from before the first.
C8_ToggleFavoriteSpot == [][C8_ToggleFlips]_vars

C8_Witness ==
  /\ lastToggle.called
  /\ lastToggle.user = "alice"
  /\ lastToggle.spot = "s1"
  /\ lastToggle.result = FALSE
  /\ favorites = {<<"bob", "s1">>, <<"alice", "s2">>}
  /\ favResponse.response = "not_favorite"
(***************************************************************************)
(* Properties of the ranking endpoints                                     *)
(***************************************************************************)
\* the views of the spot that are at most 7 days old
ViewsInLastWeek(spot) ==
  Cardinality({i \in 1..Len(spotViews[spot]) : now - spotViews[spot][i] <= 7})

\* x is to be listed before y: more views in the week, or as many and newer
RanksBefore(x, y) ==
  \/ ViewsInLastWeek(x) > ViewsInLastWeek(y)
  \/ ViewsInLastWeek(x) = ViewsInLastWeek(y) /\ created_at(x) > created_at(y)

Listed == {ranked.spots[i].spot : i \in 1..Len(ranked.spots)}

Eligible == {s \in RankingSpots : ViewsInLastWeek(s) >= 1}

\* C9: a ranking response lists only spots with at least one view in the last
\* 7 days, each once and with its 7-day count, ordered by that count
\* descending and by newest spot among equal counts; it lists all of them
\* when they are at most 7 and otherwise the 7 that rank first; a view older
\* than 7 days is not counted, so a spot with only such views is not listed.
C9_RankingIsWeeklyTopSeven ==
  (ranked.answered /\ ranked.status = "200") =>
    /\ Listed \subseteq Eligible
    /\ Cardinality(Listed) = Len(ranked.spots)
    /\ Len(ranked.spots) = IF Cardinality(Eligible) < 7 THEN Cardinality(Eligible) ELSE 7
    /\ \A i \in 1..Len(ranked.spots) :
         ranked.spots[i].weekly_views = ViewsInLastWeek(ranked.spots[i].spot)
    /\ \A i, j \in 1..Len(ranked.spots) :
         i < j => RanksBefore(ranked.spots[i].spot, ranked.spots[j].spot)
    /\ \A s \in Eligible \ Listed : \A t \in Listed : RanksBefore(t, s)

\* eight spots have views in the week, one of them two; the oldest is cut
C9_Witness ==
  /\ ranked.answered
  /\ ranked.status = "200"
  /\ Cardinality(Eligible) = 8
  /\ Len(ranked.spots) = 7
  /\ ranked.spots[1] = [spot |-> 5, weekly_views |-> 2]
  /\ ranked.spots[2].spot = 8
  /\ 1 \notin Listed

\* the views of day 0 have aged out: only the spot viewed later is ranked
C9_WitnessAgedOut ==
  /\ ranked.answered
  /\ ranked.status = "200"
  /\ now = 8
  /\ Len(ranked.spots) = 1
  /\ Len(spotViews[ranked.spots[1].spot]) = 2
  /\ ranked.spots[1].weekly_views = 1
(***************************************************************************)
(* Properties of the spot list                                             *)
(***************************************************************************)
AllSpots == 1..Len(spotRows)

CreatedBy(user) == {pk \in AllSpots : spotRows[pk] = user}

\* the value of the filter parameter, the empty text when it is absent
FilterText(param) == IF param.present THEN param.value ELSE <<>>

\* the two texts differ at most in the case of their letters
EqualIgnoringCase(a, b) ==
  /\ Len(a) = Len(b)
  /\ \A i \in 1..Len(a) :
       \/ a[i] = b[i]
       \/ \E k \in 1..Len(UpperCase) :
            {a[i], b[i]} = {UpperCase[k], LowerCase[k]}

\* for an authenticated requester 'mine' and 'others' split the spots
MineAndOthersPartition ==
  \A user \in Users :
    /\ spots_api(user, Param(Mine)) \cap spots_api(user, Param(Others)) = {}
    /\ spots_api(user, Param(Mine)) \cup spots_api(user, Param(Others)) = AllSpots

\* C10 as stated: every filter value other than the texts mine and others
\* returns all spots.
C10_OtherValueReturnsAll ==
  apiResponse.answered =>
    LET user == apiResponse.user
        text == FilterText(apiResponse.filter) IN
    /\ (IsAuthenticated(user) /\ text = Mine) => apiResponse.spots = CreatedBy(user)
    /\ (IsAuthenticated(user) /\ text = Others)
         => apiResponse.spots = AllSpots \ CreatedBy(user)
    /\ (~IsAuthenticated(user) \/ text \notin {Mine, Others})
         => apiResponse.spots = AllSpots
    /\ MineAndOthersPartition

\* C10: spots_api returns exactly the requester's spots when the requester is
\* authenticated and the filter is mine in any letter case, exactly the spots
\* of everybody else when it is others in any letter case, and all spots when
\* the requester is anonymous or the filter is neither; for an authenticated
\* requester the mine and others results are disjoint and together all spots.
C10_FilterIgnoringCase ==
  apiResponse.answered =>
    LET user == apiResponse.user
        text == FilterText(apiResponse.filter) IN
    /\ (IsAuthenticated(user) /\ EqualIgnoringCase(text, Mine))
         => apiResponse.spots = CreatedBy(user)
    /\ (IsAuthenticated(user) /\ EqualIgnoringCase(text, Others))
         => apiResponse.spots = AllSpots \ CreatedBy(user)
    /\ (~IsAuthenticated(user)
          \/ (~EqualIgnoringCase(text, Mine) /\ ~EqualIgnoringCase(text, Others)))
         => apiResponse.spots = AllSpots
    /\ MineAndOthersPartition

\* alice asks for MINE and receives her one spot of three
C10_Witness ==
  /\ apiResponse.answered
  /\ apiResponse.user = "alice"
  /\ apiResponse.filter = Param(<<"M", "I", "N", "E">>)
  /\ spotRows = <<"bob", "alice", "bob">>
  /\ apiResponse.spots = {2}
(***************************************************************************)
(* Properties of the custom admin                                          *)
(***************************************************************************)
\* the step is a manage/ request of the view
AdminStep(view) ==
  /\ adminRequests' # adminRequests
  /\ adminResponse'.view = view

\* the request of the step comes from a staff member who is no superuser
ByStaffNotSuperuser ==
  /\ adminResponse'.role = "staff"
  /\ ~userRows[request_user(adminResponse'.client)].is_superuser

\* C1 as stated: every manage/ request of an anonymous client is answered
\* with the redirect to the login page, every request of an authenticated
\* user who is not staff with the redirect to home.
C1_NonStaffIsRedirected ==
  /\ adminResponse.role = "anonymous" => adminResponse.status = "redirect_login"
  /\ adminResponse.role = "user" => adminResponse.status = "redirect_home"

\* the user views that look the user up before the access test
LookupFirstViews == {"admin_user_detail", "admin_user_password"}

\* a client that is not staff is redirected, except by the two user views
\* when no user has the primary key of the URL: these answer 404
NonStaffIsRedirectedOrNotFound ==
  adminResponse.role \in {"anonymous", "user"} =>
    IF adminResponse.view \in LookupFirstViews
         /\ adminResponse.pk \notin 1..Len(userRows)
    THEN adminResponse.status = "404"
    ELSE adminResponse.status =
           IF adminResponse.role = "anonymous" THEN "redirect_login"
                                               ELSE "redirect_home"

\* no request of a client that is not staff changes a row of any table
NonStaffChangesNothing ==
  [][(adminRequests' # adminRequests /\ adminResponse'.role \in {"anonymous", "user"})
       => UNCHANGED <<userRows, adminRecords, profileRows>>]_vars

C3_CreatedWithoutPrivileges ==
  (AdminStep("admin_user_add") /\ ByStaffNotSuperuser
     /\ Len(userRows') = Len(userRows) + 1) =>
    LET created == userRows'[Len(userRows')] IN
    /\ ~created.is_staff
    /\ ~created.is_superuser
    /\ created.groups = {}
    /\ created.user_permissions = {}

\* C3: a user row created by a request to the user-add view from a staff
\* member who is not a superuser has is_staff and is_superuser false and no
\* groups and no user permissions, whatever the form submits.
C3_StaffCreatesUnprivilegedUser == [][C3_CreatedWithoutPrivileges]_vars

\* the staff member has posted the form that asks for every privilege
C3_Witness ==
  /\ adminResponse.view = "admin_user_add"
  /\ adminResponse.client = 2
  /\ adminResponse.data = "escalate"
  /\ adminResponse.status = "302"
  /\ Len(userRows) = Len(InitialUsers) + 1
  /\ userRows[Len(userRows)].username = "eve"
  /\ userRows[Len(userRows)].is_active

C4_PrivilegesKept ==
  (AdminStep("admin_user_detail") /\ ByStaffNotSuperuser) =>
    LET pk == adminResponse'.pk IN
    /\ Len(userRows') = Len(userRows)
    /\ \A u \in 1..Len(userRows) :
         /\ userRows'[u].is_staff = userRows[u].is_staff
         /\ userRows'[u].is_superuser = userRows[u].is_superuser
         /\ userRows'[u].groups = userRows[u].groups
         /\ userRows'[u].user_permissions = userRows[u].user_permissions
         /\ userRows'[u].password = userRows[u].password
         /\ u # pk => userRows'[u] = userRows[u]
    /\ adminRecords' = adminRecords
    /\ {p \in profileRows' : p.user # pk} = {p \in profileRows : p.user # pk}

\* C4: a request to the user-detail view from a staff member who is not a
\* superuser leaves is_staff, is_superuser, groups and user_permissions of the
\* target as they were, whatever the form submits; at most username, email
\* and is_active of the target and its profile row change.
C4_StaffUpdateKeepsPrivileges == [][C4_PrivilegesKept]_vars

\* the staff member has posted the form that takes every privilege away to
\* the row of the superuser: the name and is_active changed, the rest stayed
C4_Witness ==
  /\ adminResponse.view = "admin_user_detail"
  /\ adminResponse.method = "POST"
  /\ adminResponse.client = 2
  /\ adminResponse.pk = 1
  /\ adminResponse.data = "demote"
  /\ adminResponse.status = "302"
  /\ userRows[1].username = "dan"
  /\ ~userRows[1].is_active
  /\ userRows[1].is_staff
  /\ userRows[1].is_superuser
  /\ [user |-> 1, bio |-> ""] \in profileRows

\* the staff member has posted the form that asks for every privilege to
\* the row of the visitor
C4_WitnessEscalate ==
  /\ adminResponse.view = "admin_user_detail"
  /\ adminResponse.client = 2
  /\ adminResponse.pk = 3
  /\ adminResponse.data = "escalate"
  /\ adminResponse.status = "302"
  /\ userRows[3].username = "eve"
  /\ ~userRows[3].is_staff
  /\ userRows[3].groups = {}

(***************************************************************************)
(* Properties of the homepage service                                      *)
(***************************************************************************)
\* the user has a stored score for the spot
HasScore(user, spot) ==
  \E i \in 1..Len(scoreRows) : scoreRows[i].user = user /\ scoreRows[i].spot = spot

\* the stored score of the spot for the user
StoredScore(user, spot) ==
  LET i == CHOOSE k \in 1..Len(scoreRows) :
             scoreRows[k].user = user /\ scoreRows[k].spot = spot
  IN scoreRows[i].score

\* the text without the whitespace around it: from its first to its last
\* character that is not whitespace
Trimmed(text) ==
  LET inner == {i \in 1..Len(text) : text[i] \notin Whitespace} IN
  IF inner = {} THEN <<>>
  ELSE SubSeq(text, CHOOSE i \in inner : \A j \in inner : i <= j,
                    CHOOSE i \in inner : \A j \in inner : j <= i)

\* the text the search looks for: the parameter without the whitespace
\* around it
SearchedText(query) == IF query.present THEN Trimmed(query.value) ELSE <<>>

\* the spots the homepage lists for the query
Found(query) ==
  {spot \in 1..Len(spotTable) :
     SearchedText(query) = <<>> \/ Matches(spot, SearchedText(query))}

\* the sequence lists every spot of the set once, newest first
NewestFirst(spots, set) ==
  /\ {spots[i] : i \in 1..Len(spots)} = set
  /\ \A i, j \in 1..Len(spots) : i < j => spots[i] > spots[j]

\* the sequence lists every spot of the set once
ListsOnce(spots, set) ==
  /\ {spots[i] : i \in 1..Len(spots)} = set
  /\ Len(spots) = Cardinality(set)

C12_AnonymousGetsLoginNotice ==
  (/\ homeResult.answered
   /\ homeResult.sort = "relevance"
   /\ homeResult.user = Anonymous)
  => /\ NewestFirst(homeResult.spots, Found(homeResult.query))
     /\ homeResult.recommendation_notice = LoginNotice
     /\ homeResult.recommendation_scored_ids = <<>>
     /\ homeResult.recommendation_source = "None"

\* C12 (amended): for an unauthenticated user and sort_mode "relevance" the
\* result keeps the newest-first order, has no scored ids and no source, and
\* carries the login-required notice when it lists at least one spot and no
\* notice when it lists none.
C12_AnonymousRelevance ==
  (/\ homeResult.answered
   /\ homeResult.sort = "relevance"
   /\ homeResult.user = Anonymous)
  => /\ NewestFirst(homeResult.spots, Found(homeResult.query))
     /\ homeResult.recommendation_notice =
          (IF homeResult.spots # <<>> THEN LoginNotice ELSE "None")
     /\ homeResult.recommendation_scored_ids = <<>>
     /\ homeResult.recommendation_source = "None"

\* an anonymous relevance request that lists two spots for which another user
\* has scores
C12_Witness ==
  /\ homeResult.answered
  /\ homeResult.sort = "relevance"
  /\ homeResult.user = Anonymous
  /\ Len(homeResult.spots) >= 2
  /\ \A i \in 1..Len(homeResult.spots) : \E user \in Users : HasScore(user, homeResult.spots[i])
  /\ homeResult.recommendation_notice = LoginNotice

\* C13: fetch_homepage_spots treats every sort_mode other than "recent" and
\* "relevance" as "recent", searches for the query without the whitespace
\* around it (a query of whitespace only, or none, lists every spot), and
\* reports the normalised sort_mode and search_query in the result.
C13_InputsNormalised ==
  LET sort == IF homeResult.sort \in {"recent", "relevance"}
              THEN homeResult.sort ELSE "recent" IN
  homeResult.answered
  => /\ homeResult.sort_mode = sort
     /\ homeResult.search_query = SearchedText(homeResult.query)
     /\ ListsOnce(homeResult.spots, Found(homeResult.query))
     /\ sort = "recent"
          => /\ NewestFirst(homeResult.spots, Found(homeResult.query))
             /\ homeResult.recommendation_source = "None"
             /\ homeResult.recommendation_notice = "None"
             /\ homeResult.recommendation_scored_ids = <<>>

\* a request with a sort_mode that is not allowed and a query with whitespace
\* around it, for a user whose scores would reorder the spots, that lists a
\* spot and leaves one out
C13_Witness ==
  /\ homeResult.answered
  /\ homeResult.sort = "Relevance"
  /\ homeResult.sort_mode = "recent"
  /\ homeResult.query.present
  /\ homeResult.query.value # homeResult.search_query
  /\ homeResult.search_query # <<>>
  /\ homeResult.spots # <<>>
  /\ Len(homeResult.spots) < Len(spotTable)
  /\ HasScore(homeResult.user, homeResult.spots[1])

(***************************************************************************)
(* Properties of the spot form                                             *)
(***************************************************************************)
\* the pieces of the text between its commas
Pieces(text) ==
  {SubSeq(text, p[1], p[2]) : p \in
     {p \in (1..(Len(text) + 1)) \X (0..Len(text)) :
        /\ p[1] <= p[2] + 1
        /\ p[1] = 1 \/ text[p[1] - 1] = ","
        /\ p[2] = Len(text) \/ text[p[2] + 1] = ","
        /\ \A k \in p[1]..p[2] : text[k] # ","}}

\* the names tags_text asks for: the trimmed pieces that are not empty
WantedNames(text) == {Trimmed(piece) : piece \in Pieces(text)} \ {<<>>}

\* the names of the tags of the spot
TagNames(pk) == {tagRows[tag] : tag \in formSpots[pk].tags}

\* no two Tag rows share a name
TagNamesUnique ==
  \A i, j \in 1..Len(tagRows) : tagRows[i] = tagRows[j] => i = j

\* C14: after SpotForm.save the tags of the spot are exactly the distinct,
\* trimmed, non-empty names of the comma-separated tags_text, one Tag row
\* each; the creator of a new spot is the passed user; and no two Tag rows
\* share a name.
C14_TagsAndCreatorSaved ==
  /\ TagNamesUnique
  /\ formResult.saved =>
       /\ TagNames(formResult.pk) = WantedNames(formResult.tags_text)
       /\ Cardinality(formSpots[formResult.pk].tags)
            = Cardinality(WantedNames(formResult.tags_text))
       /\ formSpots[formResult.pk].tags \subseteq 1..Len(tagRows)
       /\ (formResult.new /\ formResult.user # None)
            => formSpots[formResult.pk].created_by = formResult.user

\* a save that replaces the tags of a spot: a tag used before is reused,
\* a tag of the spot is dropped, and a name is given twice in the text
C14_Witness ==
  /\ formResult.saved
  /\ ~formResult.new
  /\ formResult.tags_text = <<"a", ",", " ", "b", " ", ",", "a">>
  /\ TagNames(formResult.pk) = {<<"a">>, <<"b">>}
  /\ Len(tagRows) = 3

\* a new spot saved for the passed user
C14_WitnessNew ==
  /\ formResult.saved
  /\ formResult.new
  /\ formResult.user = "alice"
  /\ formSpots[formResult.pk].tags # {}

(***************************************************************************)
(* Properties of the relevance analysis                                    *)
(***************************************************************************)
\* the user has viewed the spot
HasViewed(user, spot) == IsAuthenticated(user) /\ history[<<user, spot>>].exists

\* the heuristic score of the row is positive: a counted view, some viewing
\* time, or a visit in the last thirty days
PositiveHeuristic(row) ==
  \/ row.view_count > 0
  \/ row.total_view_duration > 0
  \/ (clock - row.last_viewed_at) * TickSeconds < 30 * 86400

\* the source order_spots_by_relevance has to name
ExpectedSource(user, spots, api) ==
  IF ~\E i \in 1..Len(spots) : HasViewed(user, spots[i]) THEN "none"
  ELSE IF DOMAIN api # {} THEN "api"
  ELSE IF \E i \in 1..Len(spots) :
            /\ HasViewed(user, spots[i])
            /\ PositiveHeuristic(history[<<user, spots[i]>>])
       THEN "fallback"
  ELSE "none"

\* C20: order_spots_by_relevance names the source "api" when the external
\* API returns scores, else "fallback" when an interaction of the user has a
\* positive heuristic score, else "none" (always "none" for an anonymous
\* user, a user without view history of the spots, or no spots). With "none"
\* the spots keep the input order and no spot id is scored; otherwise the
\* spots are in descending order of the score and every unscored spot comes
\* after every scored one.
C20_SourceAndOrder ==
  LET r == relevanceResult
      Scored(spot) == spot \in r.scored_spot_ids IN
  r.answered =>
    /\ r.source = ExpectedSource(r.user, r.input, r.api)
    /\ r.source = "none" => r.spots = r.input /\ r.scored_spot_ids = {}
    /\ r.source # "none" =>
         /\ ListsOnce(r.spots, Range(r.input))
         /\ r.scored_spot_ids =
              (IF r.source = "api" THEN DOMAIN r.api
               ELSE {spot \in Range(r.input) : HasViewed(r.user, spot)})
         /\ r.source = "api" => r.scores = r.api
         /\ \A i, j \in 1..Len(r.spots) :
              i < j =>
                /\ Scored(r.spots[j]) => Scored(r.spots[i])
                /\ Scored(r.spots[i]) /\ Scored(r.spots[j])
                     => r.scores[r.spots[i]] >= r.scores[r.spots[j]]

\* the fallback scores move the older, longer viewed spot in front of the
\* newer one
C20_Witness ==
  /\ relevanceResult.answered
  /\ relevanceResult.source = "fallback"
  /\ relevanceResult.input = <<2, 1>>
  /\ relevanceResult.spots = <<1, 2>>
  /\ relevanceResult.scored_spot_ids = {1, 2}

\* a user whose only interaction has no positive score gets the input order
C20_WitnessNone ==
  /\ relevanceResult.answered
  /\ HasViewed(relevanceResult.user, 1)
  /\ relevanceResult.api = <<>>
  /\ relevanceResult.source = "none"
  /\ Len(relevanceResult.input) = 2

(***************************************************************************)
(* C15: the job is due by the interval                                     *)
(***************************************************************************)
\* the setting the command works with: the row, or the row it creates
FoundSetting == IF jobSetting.exists THEN jobSetting ELSE NewJobSetting

\* whole hours are whole numbers of ticks of the clock
TicksPerHour == SecondsPerHour \div TickSeconds

\* at the time, at least interval_hours hours have passed since last_run_at
IntervalElapsed(setting, at) ==
  at - setting.last_run_at >= setting.interval_hours * TicksPerHour

\* what the claim says of is_job_due
DueAsClaimed(setting, at) ==
  /\ ~setting.enabled => ~is_job_due(setting, at)
  /\ setting.enabled /\ setting.last_run_at = NoTime => is_job_due(setting, at)
  /\ setting.enabled /\ setting.last_run_at # NoTime
       => (is_job_due(setting, at) <=> IntervalElapsed(setting, at))

\* the step is an invocation of the command with neither --force nor a user
\* filter that got as far as the schedule check
ScheduledInvocation ==
  /\ jobCalls' = jobCalls + 1
  /\ lastCall'.kind = "command"
  /\ lastCall'.answer \in {"skipped", "all users"}
  /\ ~lastCall'.options.force

\* such an invocation runs the analysis exactly when the setting it finds is
\* enabled and has never run or has run at least interval_hours hours ago
C15_DueStep ==
  ScheduledInvocation =>
    (lastCall'.answer = "all users"
       <=> /\ FoundSetting.enabled
           /\ \/ FoundSetting.last_run_at = NoTime
              \/ IntervalElapsed(FoundSetting, clock))

\* is_job_due of the setting at the times from its last run on, and after an
\* update_last_run the job is not due before interval_hours hours have passed
C15_DueFunction ==
  /\ \A at \in 0..MaxClock :
       (FoundSetting.last_run_at = NoTime \/ at >= FoundSetting.last_run_at)
         => DueAsClaimed(FoundSetting, at)
  /\ lastUpdate # NoTime
       => /\ jobSetting.last_run_at = lastUpdate
          /\ \A at \in lastUpdate..MaxClock :
               at - lastUpdate < jobSetting.interval_hours * TicksPerHour
                 => ~is_job_due(jobSetting, at)

\* C15: is_job_due is False for a disabled setting, True for an enabled
\* setting that has never run, and otherwise True exactly when at least
\* interval_hours hours have passed since last_run_at; after update_last_run
\* at a time the job is not due before interval_hours hours have passed.
C15_JobDue == []C15_DueFunction /\ [][C15_DueStep]_vars

\* the command has run the analysis, the setting is enabled, and exactly
\* interval_hours hours later the job is due again
C15_Witness ==
  /\ lastCall.kind = "command"
  /\ lastUpdate # NoTime
  /\ jobSetting.enabled
  /\ clock - lastUpdate = jobSetting.interval_hours * TicksPerHour
  /\ is_job_due(jobSetting, clock)

\* the command was skipped because the interval has not passed
C15_WitnessNotDue ==
  /\ lastCall.kind = "command"
  /\ lastCall.answer = "skipped"
  /\ jobSetting.enabled
  /\ lastUpdate # NoTime
  /\ clock > lastUpdate

(***************************************************************************)
(* C16: a job that is disabled or not due is skipped                       *)
(***************************************************************************)
\* the step is an invocation of the command with neither --force nor a user
\* filter
UnforcedInvocation ==
  /\ jobCalls' = jobCalls + 1
  /\ lastCall'.kind = "command"
  /\ ~lastCall'.options.force
  /\ lastCall'.options.user_id = 0
  /\ lastCall'.options.username = None

\* the job setting exists and is disabled, or has run less than
\* interval_hours hours ago
DisabledOrNotDue ==
  /\ jobSetting.exists
  /\ \/ ~jobSetting.enabled
     \/ /\ jobSetting.last_run_at # NoTime
        /\ ~IntervalElapsed(jobSetting, clock)

C16_SkipStep ==
  UnforcedInvocation /\ DisabledOrNotDue =>
    /\ scoreRows' = scoreRows
    /\ jobLogs' = jobLogs
    /\ jobSetting' = jobSetting

\* C16: an invocation of run_recommendation_jobs without --force and without
\* a user filter that finds the job disabled or not yet due creates or
\* deletes no UserRecommendationScore and no RecommendationJobLog and leaves
\* last_run_at unchanged.
C16_SkippedRunChangesNothing == [][C16_SkipStep]_vars

\* the command was skipped as not due when scores and logs of an earlier run
\* were stored
C16_Witness ==
  /\ lastCall.kind = "command"
  /\ lastCall.answer = "skipped"
  /\ ~lastCall.options.force
  /\ jobSetting.enabled
  /\ jobSetting.last_run_at # NoTime
  /\ jobLogs # <<>>
  /\ scoreRows # <<>>

\* the command was skipped because the job is disabled
C16_WitnessDisabled ==
  /\ lastCall.kind = "command"
  /\ lastCall.answer = "skipped"
  /\ ~jobSetting.enabled

(***************************************************************************)
(* C17: a run without persistence                                          *)
(***************************************************************************)
\* the step is a call of run_recommendation_for_user with persist_log=False
UnpersistedCall ==
  /\ jobCalls' = jobCalls + 1
  /\ lastCall'.kind = "service"
  /\ ~lastCall'.persist_log

\* the step is an invocation of the command with --dry-run
DryRunInvocation ==
  /\ jobCalls' = jobCalls + 1
  /\ lastCall'.kind = "command"
  /\ lastCall'.options.dry_run

C17_NoPersistStep == UnpersistedCall \/ DryRunInvocation => jobLogs' = jobLogs

\* C17: run_recommendation_for_user with persist_log=False and every
\* invocation of run_recommendation_jobs with --dry-run, with or without
\* --force and a user filter, leave the RecommendationJobLog rows unchanged.
C17_NoLogWithoutPersistence == [][C17_NoPersistStep]_vars

\* what holds of the code: no log is created by a call with
\* persist_log=False nor by a dry run of the user of a filter
UnpersistedOrFilteredDryRun ==
  [][UnpersistedCall
       \/ (DryRunInvocation /\ lastCall'.answer \in {"schema", "skipped", "no user", "one user"})
     => jobLogs' = jobLogs]_vars

\* a dry run of all users has stored a log
DryRunStoredLog ==
  /\ lastCall.kind = "command"
  /\ lastCall.options.dry_run
  /\ lastCall.answer = "all users"
  /\ jobLogs # <<>>

(***************************************************************************)
(* C18: a forced run                                                       *)
(***************************************************************************)
\* the step is an invocation of the command with --force
ForcedInvocation ==
  /\ jobCalls' = jobCalls + 1
  /\ lastCall'.kind = "command"
  /\ lastCall'.options.force

\* the user has view history
HasHistory(user) == \E spot \in 1..Len(spotTable) : history[<<user, spot>>].exists

\* the step keeps the logs and appends these
NewLogs == SubSeq(jobLogs', Len(jobLogs) + 1, Len(jobLogs'))

KeepsLogs == Len(jobLogs') >= Len(jobLogs) /\ SubSeq(jobLogs', 1, Len(jobLogs)) = jobLogs

NewLogsOf(user) == Cardinality({i \in 1..Len(NewLogs) : NewLogs[i].user = user})

\* the analysis of all spots gives the user a score: the API answered, or a
\* row of the user has a positive heuristic score
AnalysisScores(user, api) ==
  ExpectedSource(user, [i \in 1..Len(spotTable) |-> i], api) # "none"

C18_ForcedStep ==
  ForcedInvocation =>
    /\ jobSetting'.exists
    /\ jobSetting'.last_run_at # NoTime
    /\ KeepsLogs
    /\ \A user \in Users : HasHistory(user) => NewLogsOf(user) = 1

C18_ForcedUnfilteredStep ==
  /\ ForcedInvocation
  /\ lastCall'.options.user_id = 0
  /\ lastCall'.options.username = None
  /\ ~lastCall'.options.dry_run
  => /\ lastCall'.answer = "all users"
     /\ jobSetting'.exists
     /\ jobSetting'.last_run_at = clock
     /\ KeepsLogs
     /\ \A user \in Users :
          NewLogsOf(user) =
            IF HasHistory(user) /\ AnalysisScores(user, lastCall'.api) THEN 1 ELSE 0

C18_WitnessNoScore ==
  /\ lastCall.kind = "command"
  /\ lastCall.options.force
  /\ lastCall.answer = "all users"
  /\ HasHistory("alice")
  /\ jobLogs = <<>>

\* a forced run inside the interval
C18_WitnessNotDue ==
  /\ lastCall.kind = "command"
  /\ lastCall.options.force
  /\ lastCall.answer = "all users"
  /\ jobSetting.enabled
  /\ jobCalls = 2
  /\ Len(jobLogs) = 2
  /\ jobLogs[1].user = jobLogs[2].user

(***************************************************************************)
(* C19: the log of a tool call                                             *)
(***************************************************************************)
\* the step is a call of store_recommendation_scores
ToolStep == jobCalls' = jobCalls + 1 /\ lastCall'.kind = "tool"

\* the user the arguments name: the one with the id, else the one with the
\* name
NamedBy(arguments, user) ==
  IF arguments.user_id.number /\ \E other \in Users : UserId(other) = arguments.user_id.value
  THEN UserId(user) = arguments.user_id.value
  ELSE user = arguments.username

NamesUser(arguments) == \E user \in Users : NamedBy(arguments, user)

\* the entry is a dict whose spot_id and score are numbers
Accepted(item) ==
  /\ item.dict
  /\ item.spot_id.given /\ item.spot_id.number
  /\ item.score.given /\ item.score.number

\* the spot ids of the accepted entries, in the order of the entries
RECURSIVE AcceptedIds(_)
AcceptedIds(items) ==
  IF items = <<>> THEN <<>>
  ELSE (IF Accepted(Head(items)) THEN <<Head(items).spot_id.value>> ELSE <<>>)
         \o AcceptedIds(Tail(items))

\* the step adds exactly one log, of the named user and the accepted ids
AddsOneLog(arguments, items) ==
  /\ lastCall'.raised = "none"
  /\ Len(jobLogs') = Len(jobLogs) + 1
  /\ SubSeq(jobLogs', 1, Len(jobLogs)) = jobLogs
  /\ NamedBy(arguments, jobLogs'[Len(jobLogs')].user)
  /\ jobLogs'[Len(jobLogs')].user \in Users
  /\ jobLogs'[Len(jobLogs')].scored_spot_ids = AcceptedIds(items)

\* the step raises the error and adds no log
Raises(error) == lastCall'.raised = error /\ jobLogs' = jobLogs

\* scores that are given and not a list raise the error; scores that are
\* not given have no entries
C19_ToolStep ==
  ToolStep =>
    LET arguments == lastCall'.arguments IN
    IF ~NamesUser(arguments) \/ arguments.scores.kind = "other"
    THEN Raises("ValueError")
    ELSE AddsOneLog(arguments, arguments.scores.items)

\* C19: store_recommendation_scores creates exactly one log for the
\* resolved user with the spot ids of the well-formed entries in input
\* order, skipping the malformed ones; when no user resolves or scores is
\* not a list it raises ValueError and creates no log.
C19_OneLogOrValueError == [][C19_ToolStep]_vars

\* a conversion of the entry raises OverflowError
RaisesOverflow(item) ==
  /\ item.dict
  /\ \/ item.spot_id.overflow
     \/ item.spot_id.given /\ item.spot_id.number /\ item.score.overflow

\* what the code does with every tool call
ToolStepOfTheCode ==
  ToolStep =>
    LET arguments == lastCall'.arguments
        items == IF arguments.scores.kind = "list" THEN arguments.scores.items ELSE <<>> IN
    IF arguments.user_id.overflow THEN Raises("OverflowError")
    ELSE IF ~NamesUser(arguments) THEN Raises("ValueError")
    ELSE IF arguments.scores.kind = "other" /\ arguments.scores.truthy
    THEN Raises("ValueError")
    ELSE IF \E i \in 1..Len(items) : RaisesOverflow(items[i]) THEN Raises("OverflowError")
    ELSE AddsOneLog(arguments, items)

\* what holds of the code: one log for the resolved user with the spot ids
\* of the well-formed entries in input order, where missing, None or
\* otherwise empty scores count as the empty list; ValueError and no log
\* when no user resolves or scores is a non-empty value that is not a list;
\* OverflowError and no log when user_id, or spot_id or score of an entry,
\* overflows its conversion
OneLogOrError == [][ToolStepOfTheCode]_vars

\* a log was added whose ids skip malformed entries and keep the order and
\* the repetitions of the others
LogSkipsMalformed ==
  /\ lastCall.kind = "tool"
  /\ lastCall.raised = "none"
  /\ jobLogs # <<>>
  /\ LET ids == jobLogs[Len(jobLogs)].scored_spot_ids IN
     /\ Len(ids) < Len(lastCall.arguments.scores.items)
     /\ \E i, j \in 1..Len(ids) : i < j /\ ids[i] >= ids[j]

\* a log was added for scores that are no list
LoggedWithoutList ==
  /\ lastCall.kind = "tool"
  /\ lastCall.raised = "none"
  /\ lastCall.arguments.scores.kind = "other"
  /\ jobLogs # <<>>

\* OverflowError was raised by an entry
OverflowErrorRaised ==
  /\ lastCall.kind = "tool"
  /\ lastCall.raised = "OverflowError"
  /\ lastCall.arguments.user_id.number

\* ValueError was raised when a log was stored before
ValueErrorRaised ==
  /\ lastCall.kind = "tool"
  /\ lastCall.raised = "ValueError"
  /\ jobLogs # <<>>

(***************************************************************************)
(* C21: the fallback score                                                 *)
(***************************************************************************)
\* seconds since the last view of the row scored
SecondsSinceLastView == (fallbackResult.at - fallbackResult.interaction.last_viewed_at) * TickSeconds

\* 2 * view_count + max(0, 3 - days / 10) + 0.5 * min(minutes, 60), times
\* ScoreScale, with days = seconds / 86400 and minutes = seconds / 60;
\* ScoreScale is a multiple of 86400 * 10 and of 60 * 2
ClaimedScore(view_count, view_seconds, seconds_since) ==
  2 * view_count * ScoreScale
    + Max(0, 3 * ScoreScale - seconds_since * (ScoreScale \div (86400 * 10)))
    + (IF view_seconds < 60 * 60 THEN view_seconds ELSE 60 * 60) * (ScoreScale \div (60 * 2))

\* the row with more views and more viewing time
Grown(interaction, views, seconds) ==
  [interaction EXCEPT !.view_count = @ + views, !.total_view_duration = @ + seconds]

\* C21: the fallback score of an interaction is 2 * view_count +
\* max(0, 3 - days_since_last_view / 10) + 0.5 * min(total_view_minutes, 60);
\* it is never below 2 * view_count, viewing time beyond 60 minutes and a
\* last view older than 30 days add nothing, and it never decreases when
\* view_count or viewing time grows.
C21_FallbackScore ==
  fallbackResult.computed =>
    LET interaction == fallbackResult.interaction
        score == fallbackResult.score IN
    /\ score = ClaimedScore(interaction.view_count, interaction.total_view_duration,
                            SecondsSinceLastView)
    /\ score >= 2 * interaction.view_count * ScoreScale
    /\ interaction.total_view_duration >= 60 * 60
         => /\ score = compute_fallback_score([interaction EXCEPT !.total_view_duration = 60 * 60])
            /\ score = compute_fallback_score(Grown(interaction, 0, 60))
    /\ SecondsSinceLastView >= 30 * 86400
         => score = 2 * interaction.view_count * ScoreScale
                      + compute_fallback_score([interaction EXCEPT !.view_count = 0])
         /\ score = compute_fallback_score([interaction EXCEPT !.last_viewed_at = @ - 1])
    /\ \A views \in 0..1, seconds \in {0, 1, 60, 3600} :
         /\ compute_fallback_score(Grown(interaction, views, seconds)) >= score
         /\ views > 0 => compute_fallback_score(Grown(interaction, views, seconds)) > score

\* a row with views, more than sixty minutes of viewing and a last view
\* more than thirty days ago was scored
C21_Witness ==
  /\ fallbackResult.computed
  /\ fallbackResult.interaction.view_count > 0
  /\ fallbackResult.interaction.total_view_duration > 60 * 60
  /\ SecondsSinceLastView > 30 * 86400
  /\ fallbackResult.score > 2 * fallbackResult.interaction.view_count * ScoreScale

\* a row with a part of both bonuses was scored
C21_WitnessBonuses ==
  /\ fallbackResult.computed
  /\ fallbackResult.interaction.total_view_duration \in 1..3599
  /\ SecondsSinceLastView > 0
  /\ SecondsSinceLastView < 30 * 86400
  /\ fallbackResult.score
       > 2 * fallbackResult.interaction.view_count * ScoreScale
           + fallbackResult.interaction.total_view_duration * DurationWeight

(***************************************************************************)
(* C22: the crawl                                                          *)
(***************************************************************************)
\* the pattern matches the path: some part of the path, the first part when
\* the pattern is anchored, is the text of the pattern
PathMatches(pattern, url) ==
  LET path == IF url.path = <<>> THEN <<"/">> ELSE url.path IN
  /\ pattern.given
  /\ \E i \in 1..(Len(path) + 1), j \in 0..Len(path) :
       /\ SubSeq(path, i, j) = pattern.text
       /\ pattern.anchored => i = 1

\* the URL is of the origin of the base URL and the exclude pattern does not
\* match its path
Allowed(url) ==
  /\ url.origin = crawlInput.base_url.origin
  /\ ~PathMatches(crawlInput.exclude_pattern, url)

\* each URL is fetched at most once and at most max_pages URLs are fetched
FetchedOnce ==
  /\ \A i, j \in 1..Len(fetched) : i # j => fetched[i] # fetched[j]
  /\ Len(fetched) <= crawlInput.max_pages

\* the URLs are fetched in the order of their discovery: the URLs fetched,
\* followed by those that wait, are the URLs discovered
FetchedInDiscoveryOrder == fetched \o to_visit = discovered

CrawlDone == crawlPc = "done"

C22_StatedSafe ==
  /\ FetchedOnce
  /\ FetchedInDiscoveryOrder
  /\ \A i \in 1..Len(discovered) : Allowed(discovered[i])
  /\ \A i \in 1..Len(edges) : Allowed(edges[i][2])

\* C22 as stated: crawl terminates, fetches each URL at most once and at
\* most max_pages URLs, visits the URLs in the order of their discovery, and
\* never enqueues or records an edge to a URL outside the origin of the base
\* URL or with a path that matches the exclude pattern.
C22_CrawlAsStated == []C22_StatedSafe /\ <>CrawlDone

C22_Safe ==
  /\ FetchedOnce
  /\ FetchedInDiscoveryOrder
  /\ discovered[1] = crawlInput.base_url
  /\ \A i \in 2..Len(discovered) : Allowed(discovered[i])
  /\ \A i \in 1..Len(edges) : Allowed(edges[i][2])

\* C22 (amended): crawl terminates, fetches each URL at most once and at
\* most max_pages URLs, visits the URLs in the order of their discovery, and
\* apart from the base URL, with which the queue starts, never enqueues or
\* records an edge to a URL outside the origin of the base URL or with a
\* path that matches the exclude pattern.
C22_Crawl == []C22_Safe /\ <>CrawlDone

\* the page has a link that the crawl must not follow
HasForbiddenLink(url) ==
  LET links == Response(crawlInput.site, url).links IN
  \E i \in 1..Len(links) :
    /\ normalize_url(url, links[i]) # NoUrl
    /\ ~Allowed(normalize_url(url, links[i]))

\* a crawl has returned at max_pages with URLs left in the queue, after
\* three pages, one with a link to the other site and a link to an excluded
\* path, and it has recorded a link back to a page fetched before
C22_Witness ==
  /\ CrawlDone
  /\ Len(fetched) = crawlInput.max_pages
  /\ Len(fetched) >= 3
  /\ to_visit # <<>>
  /\ crawlInput.exclude_pattern.given
  /\ \E i \in 1..Len(fetched) :
       /\ HasForbiddenLink(fetched[i])
       /\ \E j \in 1..Len(Response(crawlInput.site, fetched[i]).links) :
            Response(crawlInput.site, fetched[i]).links[j].origin = "other"
  /\ \E e \in 1..Len(edges), i, j \in 1..Len(fetched) :
       i <= j /\ edges[e] = <<fetched[j], fetched[i]>>

\* a crawl has returned with an empty queue before max_pages
C22_WitnessExhausted ==
  /\ CrawlDone
  /\ to_visit = <<>>
  /\ Len(fetched) >= 2
  /\ Len(fetched) < crawlInput.max_pages

\* a crawl started at a base URL that the exclude pattern matches
ExcludedBaseFetched ==
  /\ CrawlDone
  /\ fetched # <<>>
  /\ PathMatches(crawlInput.exclude_pattern, fetched[1])

====
